---- MODULE Spec2Model ----
(***************************************************************************)
(* A model of the canvas Selection Controller                              *)
(* (src/components/canvas/types.ts, class SelectionController): the        *)
(* selected-shape reference, the drag and resize gestures, the bounding    *)
(* boxes and the resize handles.                                           *)
(*                                                                         *)
(* The scene is a list of shape objects owned by the engine; the           *)
(* controller holds a reference to one of them (an index into `shapes`,    *)
(* 0 for null) and mutates that object in place.                           *)
(*                                                                         *)
(* Beside it: the layout preferences kept in localStorage                  *)
(* (src/services/canvasLayoutService.ts, class CanvasLayoutService) and    *)
(* the conversion of a diagram spec into shapes (convertSpecToShapes of    *)
(* the diagram service); and, of the pages, the task state of the kanban   *)
(* board (useBoardState), the request protocol of the note chatbot         *)
(* (NoteChatbot) and the engine lifecycle of CanvasBoard. Each has its own  *)
(* specification over the same variables: Spec, SpecQuery, SpecLayout,     *)
(* SpecDiagram, SpecBoard, SpecChat, SpecMount.                            *)
(***************************************************************************)
EXTENDS Integers, Sequences, FiniteSets, TLC

VARIABLES
    shapes,             \* the scene's shape objects, in paint order
    selectedShape,      \* SelectionController.selectedShape: index into shapes, 0 = null
    isDragging,         \* SelectionController.isDragging
    isResizing,         \* SelectionController.isResizing
    dragStart,          \* SelectionController.dragStart
    initialShapeState,  \* SelectionController.initialShapeState (Null or a shape value)
    resizeHandle,       \* SelectionController.resizeHandle ("null" or a handle)
    threw,              \* the last call raised an exception
    lastCall,           \* history: the last public call and its arguments
    dragTrace,          \* history: the drag gesture, while only updateDragging calls follow startDragging
    resizeTrace,        \* history: the resize gesture, until a stop or a change of selection
    gestures,           \* history: number of gestures started so far
    query,              \* input and result of a call of one of the pure methods
    storage,            \* localStorage item 'procastify_canvas_layout' (Null or a text)
    layoutCall,         \* history: the last CanvasLayoutService call, its outcome, the item before it
    conv,               \* the run of convertSpecToShapes: its argument, locals and result
    kanban,             \* useBoardState: the tasks, the persist timer, what was saved
    chat,               \* NoteChatbot: the messages, the input, isLoading, the request in flight
    mount               \* CanvasBoard: the mounted component, its engines and its effect

vars == <<shapes, selectedShape, isDragging, isResizing, dragStart,
          initialShapeState, resizeHandle, threw, lastCall, dragTrace,
          resizeTrace, gestures, query, storage, layoutCall, conv,
          kanban, chat, mount>>

\* the state of the components of the pages
pageVars == <<kanban, chat, mount>>

\* the state outside the canvas controller and its pure methods
serviceVars == <<storage, layoutCall, conv, pageVars>>

ctrlVars == <<shapes, selectedShape, isDragging, isResizing, dragStart,
              initialShapeState, resizeHandle, threw, lastCall, dragTrace,
              resizeTrace, gestures>>

----------------------------------------------------------------------------
(* Bounds of the model *)

\* number of gestures (snapshots taken by startDragging / startResizing) in a run
MaxGestures == 2

----------------------------------------------------------------------------
(* JavaScript numbers: the integers, and NaN (the result of arithmetic on   *)
(* the undefined value of a missing field).                                 *)

NaN == 1000000000

IsNaN(a) == a = NaN

Add(a, b) == IF IsNaN(a) \/ IsNaN(b) THEN NaN ELSE a + b

Sub(a, b) == IF IsNaN(a) \/ IsNaN(b) THEN NaN ELSE a - b

Mul(a, b) == IF IsNaN(a) \/ IsNaN(b) THEN NaN ELSE a * b

\* a >= b, false when either is NaN
Ge(a, b) == ~IsNaN(a) /\ ~IsNaN(b) /\ a >= b

\* a < b, false when either is NaN
Lt(a, b) == ~IsNaN(a) /\ ~IsNaN(b) /\ a < b

MathAbs(a) == IF IsNaN(a) THEN NaN ELSE IF a < 0 THEN 0 - a ELSE a

MathMin(a, b) == IF IsNaN(a) \/ IsNaN(b) THEN NaN ELSE IF a <= b THEN a ELSE b

MathMax(a, b) == IF IsNaN(a) \/ IsNaN(b) THEN NaN ELSE IF a >= b THEN a ELSE b

\* the numeric value of obj.f: a missing field reads undefined, NaN in arithmetic
NumField(obj, f) == IF f \in DOMAIN obj THEN obj[f] ELSE NaN

----------------------------------------------------------------------------
(* The shape model *)

Null == [type |-> "null"]

NullRef == 0

NoHandle == "null"

Handles == {"tl", "tr", "bl", "br"}

Pt(px, py) == [x |-> px, y |-> py]

Rect(i, t, px, py, w, h) ==
    [id |-> i, type |-> t, x |-> px, y |-> py, width |-> w, height |-> h,
     strokeWidth |-> 2, strokeFill |-> "#000"]

Ellipse(i, px, py, rx, ry) ==
    [id |-> i, type |-> "ellipse", x |-> px, y |-> py, radX |-> rx, radY |-> ry,
     strokeWidth |-> 2, strokeFill |-> "#000"]

Line(i, t, px, py, tx, ty) ==
    [id |-> i, type |-> t, x |-> px, y |-> py, toX |-> tx, toY |-> ty,
     strokeWidth |-> 2, strokeFill |-> "#000"]

FreeDraw(i, pts) ==
    [id |-> i, type |-> "free-draw", points |-> pts,
     strokeWidth |-> 2, strokeFill |-> "#000"]

Text(i, px, py, w, h) ==
    [id |-> i, type |-> "text", x |-> px, y |-> py, width |-> w, height |-> h,
     text |-> "t", strokeWidth |-> 2, strokeFill |-> "#000"]

----------------------------------------------------------------------------
(* Geometry utilities (./utils, imported at types.ts line 101) *)

\* distance(a, b) < t for the Euclidean distance, t >= 0; false when a
\* coordinate is NaN (every comparison with NaN is false)
DistanceLt(a, b, t) ==
    LET dx == Sub(a.x, b.x)
        dy == Sub(a.y, b.y)
    IN Lt(Add(Mul(dx, dx), Mul(dy, dy)), t * t)

\* distanceToSegment(p, a, b) < t, t >= 0: the distance from p to its
\* projection on the line a-b with the projection parameter clamped to [0, 1]
\* (distance(p, a) when a = b). With the parameter dot / l2 strictly inside
\* (0, 1) the squared distance to the projection is |p - a|^2 - dot^2 / l2,
\* compared on integers after scaling by l2. False when a coordinate is NaN.
DistanceToSegmentLt(p, a, b, t) ==
    IF \E v \in {p.x, p.y, a.x, a.y, b.x, b.y} : IsNaN(v) THEN FALSE
    ELSE LET abx == b.x - a.x
             aby == b.y - a.y
             l2 == abx * abx + aby * aby
             dot == (p.x - a.x) * abx + (p.y - a.y) * aby
         IN IF l2 = 0 \/ dot <= 0 THEN DistanceLt(p, a, t)
            ELSE IF dot >= l2 THEN DistanceLt(p, b, t)
            ELSE LET ap2 == (p.x - a.x) * (p.x - a.x) + (p.y - a.y) * (p.y - a.y)
                 IN ap2 * l2 - dot * dot < t * t * l2

\* isPointInRectangle(x, y, rx, ry, rw, rh) for a normalized rectangle, edges
\* included; false when a number is NaN
isPointInRectangle(x, y, rx, ry, rw, rh) ==
    /\ Ge(x, rx)
    /\ Ge(Add(rx, rw), x)
    /\ Ge(y, ry)
    /\ Ge(Add(ry, rh), y)

----------------------------------------------------------------------------
(* Pure methods of the controller *)

\* the tolerance of getResizeHandleAtPoint
HandleThreshold == 10

\* the placeholder size of a text shape's bounds
TextBoundsWidth == 100

TextBoundsHeight == 20

Bounds(bx, by, w, h) == [x |-> bx, y |-> by, width |-> w, height |-> h]

\* the forEach of getShapeBounds over a non-empty point list; the accumulators
\* start at +Infinity / -Infinity, so the first point replaces them
RECURSIVE FoldPoints(_, _, _)
FoldPoints(pts, i, acc) ==
    IF i > Len(pts) THEN acc
    ELSE LET p == pts[i]
             nxt == IF i = 1
                    THEN [minX |-> p.x, minY |-> p.y, maxX |-> p.x, maxY |-> p.y]
                    ELSE [minX |-> MathMin(acc.minX, p.x), minY |-> MathMin(acc.minY, p.y),
                          maxX |-> MathMax(acc.maxX, p.x), maxY |-> MathMax(acc.maxY, p.y)]
         IN FoldPoints(pts, i + 1, nxt)

\* a plausible slip: the extents are made positive but the origin is not moved
RectBoundsOriginKept(shape) ==
    Bounds(shape.x, shape.y, MathAbs(shape.width), MathAbs(shape.height))

\* the rectangle/diamond branch of getShapeBounds
RectBounds(shape) ==
    LET bx == IF Ge(shape.width, 0) THEN shape.x ELSE Add(shape.x, shape.width)
        by == IF Ge(shape.height, 0) THEN shape.y ELSE Add(shape.y, shape.height)
    IN Bounds(bx, by, MathAbs(shape.width), MathAbs(shape.height))

\* a plausible slip: the extents are the maxima, the minima are not subtracted
FreeDrawBoundsMaxAsExtent(shape) ==
    IF Len(shape.points) = 0 THEN Bounds(0, 0, 0, 0)
    ELSE LET m == FoldPoints(shape.points, 1, Null)
         IN Bounds(m.minX, m.minY, m.maxX, m.maxY)

\* the free-draw branch of getShapeBounds
FreeDrawBounds(shape) ==
    IF Len(shape.points) = 0 THEN Bounds(0, 0, 0, 0)
    ELSE LET m == FoldPoints(shape.points, 1, Null)
         IN Bounds(m.minX, m.minY, Sub(m.maxX, m.minX), Sub(m.maxY, m.minY))

getShapeBounds(shape) ==
    IF shape.type \in {"rectangle", "diamond"} THEN RectBounds(shape)
    ELSE IF shape.type = "ellipse" THEN
        Bounds(Sub(shape.x, shape.radX), Sub(shape.y, shape.radY),
               Mul(shape.radX, 2), Mul(shape.radY, 2))
    ELSE IF shape.type \in {"line", "arrow"} THEN
        LET minX == MathMin(shape.x, shape.toX)
            maxX == MathMax(shape.x, shape.toX)
            minY == MathMin(shape.y, shape.toY)
            maxY == MathMax(shape.y, shape.toY)
        IN Bounds(minX, minY, Sub(maxX, minX), Sub(maxY, minY))
    ELSE IF shape.type = "free-draw" THEN FreeDrawBounds(shape)
    ELSE IF shape.type = "text" THEN
        Bounds(shape.x, shape.y, TextBoundsWidth, TextBoundsHeight)
    ELSE Bounds(0, 0, 0, 0)

\* a plausible slip: the top-right test forgets the width
getResizeHandleAtPointNoWidth(x, y, bounds) ==
    IF DistanceLt(Pt(x, y), Pt(bounds.x, bounds.y), HandleThreshold) THEN "tl"
    ELSE IF DistanceLt(Pt(x, y), Pt(bounds.x, bounds.y), HandleThreshold) THEN "tr"
    ELSE IF DistanceLt(Pt(x, y), Pt(bounds.x, Add(bounds.y, bounds.height)), HandleThreshold) THEN "bl"
    ELSE IF DistanceLt(Pt(x, y), Pt(Add(bounds.x, bounds.width), Add(bounds.y, bounds.height)),
                       HandleThreshold) THEN "br"
    ELSE NoHandle

getResizeHandleAtPoint(x, y, bounds) ==
    IF DistanceLt(Pt(x, y), Pt(bounds.x, bounds.y), HandleThreshold) THEN "tl"
    ELSE IF DistanceLt(Pt(x, y), Pt(Add(bounds.x, bounds.width), bounds.y), HandleThreshold) THEN "tr"
    ELSE IF DistanceLt(Pt(x, y), Pt(bounds.x, Add(bounds.y, bounds.height)), HandleThreshold) THEN "bl"
    ELSE IF DistanceLt(Pt(x, y), Pt(Add(bounds.x, bounds.width), Add(bounds.y, bounds.height)),
                       HandleThreshold) THEN "br"
    ELSE NoHandle

\* the tolerance of isPointInShape for stroke shapes
HitThreshold == 10

\* the for loop of the free-draw branch of isPointInShape, from segment i on
RECURSIVE HitsStroke(_, _, _, _)
HitsStroke(x, y, pts, i) ==
    IF i > Len(pts) - 1 THEN FALSE
    ELSE IF DistanceToSegmentLt(Pt(x, y), pts[i], pts[i + 1], HitThreshold) THEN TRUE
    ELSE HitsStroke(x, y, pts, i + 1)

\* the ellipse branch of isPointInShape: dx*dx / (radX*radX) + dy*dy / (radY*radY) <= 1.
\* With a zero radius a term is Infinity or NaN (0 / 0) and the test is false;
\* otherwise the comparison is made on integers after multiplying by the squares.
HitsEllipse(x, y, shape) ==
    LET dx == Sub(x, shape.x)
        dy == Sub(y, shape.y)
        rx2 == Mul(shape.radX, shape.radX)
        ry2 == Mul(shape.radY, shape.radY)
    IN IF \E v \in {dx, dy, rx2, ry2} : IsNaN(v) THEN FALSE
       ELSE IF rx2 = 0 \/ ry2 = 0 THEN FALSE
       ELSE dx * dx * ry2 + dy * dy * rx2 <= rx2 * ry2

\* a plausible slip: the rectangle is tested as stored, not its normalized bounds
isPointInShapeRawBox(x, y, shape) ==
    IF shape.type \in {"rectangle", "diamond"} THEN
        isPointInRectangle(x, y, shape.x, shape.y, shape.width, shape.height)
    ELSE IF shape.type = "ellipse" THEN HitsEllipse(x, y, shape)
    ELSE IF shape.type \in {"line", "arrow"} THEN
        DistanceToSegmentLt(Pt(x, y), Pt(shape.x, shape.y), Pt(shape.toX, shape.toY), HitThreshold)
    ELSE IF shape.type = "free-draw" THEN HitsStroke(x, y, shape.points, 1)
    ELSE IF shape.type = "text" THEN
        LET b == getShapeBounds(shape)
        IN isPointInRectangle(x, y, b.x, b.y, b.width, b.height)
    ELSE FALSE

isPointInShape(x, y, shape) ==
    IF shape.type \in {"rectangle", "diamond"} THEN
        LET b == getShapeBounds(shape)
        IN isPointInRectangle(x, y, b.x, b.y, b.width, b.height)
    ELSE IF shape.type = "ellipse" THEN HitsEllipse(x, y, shape)
    ELSE IF shape.type \in {"line", "arrow"} THEN
        DistanceToSegmentLt(Pt(x, y), Pt(shape.x, shape.y), Pt(shape.toX, shape.toY), HitThreshold)
    ELSE IF shape.type = "free-draw" THEN HitsStroke(x, y, shape.points, 1)
    ELSE IF shape.type = "text" THEN
        LET b == getShapeBounds(shape)
        IN isPointInRectangle(x, y, b.x, b.y, b.width, b.height)
    ELSE FALSE

----------------------------------------------------------------------------
(* The controller's methods, as functions of the controller state c (with   *)
(* the shape objects it can reach)                                          *)

State ==
    [shapes |-> shapes, selectedShape |-> selectedShape, isDragging |-> isDragging,
     isResizing |-> isResizing, dragStart |-> dragStart,
     initialShapeState |-> initialShapeState, resizeHandle |-> resizeHandle,
     threw |-> FALSE]

\* the fields of a shape that hold numbers
NumberFields == {"x", "y", "width", "height", "radX", "radY", "toX", "toY", "strokeWidth"}

\* a number through JSON.stringify and JSON.parse: NaN is written as null, and
\* the null read back counts as 0 in the additions that use the snapshot
JsonNumber(v) == IF IsNaN(v) THEN 0 ELSE v

\* JSON.parse(JSON.stringify(shape)): a fresh value holding the shape's fields,
\* sharing nothing with the live shape
JsonClone(shape) ==
    [f \in DOMAIN shape |->
        IF f \in NumberFields THEN JsonNumber(shape[f])
        ELSE IF f = "points"
             THEN [i \in 1..Len(shape.points) |->
                      Pt(JsonNumber(shape.points[i].x), JsonNumber(shape.points[i].y))]
             ELSE shape[f]]

\* a plausible slip: a null argument is ignored
setSelectedShapeIgnoresNull(c, ref) ==
    IF ref = NullRef THEN c ELSE [c EXCEPT !.selectedShape = ref]

setSelectedShape(c, ref) == [c EXCEPT !.selectedShape = ref]

getSelectedShape(c) == c.selectedShape

startDragging(c, x, y) ==
    IF c.selectedShape = NullRef THEN c
    ELSE [c EXCEPT !.isDragging = TRUE,
                   !.dragStart = Pt(x, y),
                   !.initialShapeState = JsonClone(c.shapes[c.selectedShape])]

\* a plausible slip: the moved baseline copy replaces the shape, instead of
\* the shape's coordinates being assigned
DragShapeReplacing(s, init, dx, dy) ==
    IF init.type = "free-draw" THEN
        [init EXCEPT !.points = [i \in 1..Len(init.points) |->
                                    Pt(Add(init.points[i].x, dx), Add(init.points[i].y, dy))]]
    ELSE LET moved == [init EXCEPT !.x = Add(init.x, dx), !.y = Add(init.y, dy)]
         IN IF init.type \in {"line", "arrow"}
            THEN [moved EXCEPT !.toX = Add(init.toX, dx), !.toY = Add(init.toY, dy)]
            ELSE moved

\* a plausible slip: the delta is added to the live shape, not to the baseline
DragShapeAccumulating(s, init, dx, dy) ==
    IF s.type = "free-draw" /\ init.type = "free-draw" THEN
        [s EXCEPT !.points = [i \in 1..Len(s.points) |->
                                 Pt(Add(s.points[i].x, dx), Add(s.points[i].y, dy))]]
    ELSE IF s.type # "free-draw" /\ init.type # "free-draw" THEN
        LET moved == [s EXCEPT !.x = Add(s.x, dx), !.y = Add(s.y, dy)]
        IN IF s.type \in {"line", "arrow"}
           THEN [moved EXCEPT !.toX = Add(NumField(s, "toX"), dx),
                              !.toY = Add(NumField(s, "toY"), dy)]
           ELSE moved
    ELSE s

\* the assignments of updateDragging to the selected shape s
DragShape(s, init, dx, dy) ==
    IF s.type = "free-draw" /\ init.type = "free-draw" THEN
        [s EXCEPT !.points = [i \in 1..Len(init.points) |->
                                 Pt(Add(init.points[i].x, dx), Add(init.points[i].y, dy))]]
    ELSE IF s.type # "free-draw" /\ init.type # "free-draw" THEN
        LET moved == [s EXCEPT !.x = Add(init.x, dx), !.y = Add(init.y, dy)]
        IN IF s.type \in {"line", "arrow"}
           THEN [moved EXCEPT !.toX = Add(NumField(init, "toX"), dx),
                              !.toY = Add(NumField(init, "toY"), dy)]
           ELSE moved
    ELSE s

\* a plausible slip: the guard forgets the selection, and s.type reads a
\* property of null (a TypeError)
updateDraggingUnguarded(c, x, y) ==
    IF ~c.isDragging \/ c.initialShapeState = Null THEN c
    ELSE IF c.selectedShape = NullRef THEN [c EXCEPT !.threw = TRUE]
    ELSE LET dx == Sub(x, c.dragStart.x)
             dy == Sub(y, c.dragStart.y)
         IN [c EXCEPT !.shapes[c.selectedShape] =
                          DragShape(c.shapes[c.selectedShape], c.initialShapeState, dx, dy)]

\* a plausible slip: the baseline is the selected shape itself, not a copy of
\* it, so what is assigned to the shape is assigned to the baseline
updateDraggingSharingBaseline(c, x, y) ==
    IF ~c.isDragging \/ c.selectedShape = NullRef \/ c.initialShapeState = Null THEN c
    ELSE LET dx == Sub(x, c.dragStart.x)
             dy == Sub(y, c.dragStart.y)
             moved == DragShape(c.shapes[c.selectedShape], c.initialShapeState, dx, dy)
         IN [c EXCEPT !.shapes[c.selectedShape] = moved, !.initialShapeState = moved]

updateDragging(c, x, y) ==
    IF ~c.isDragging \/ c.selectedShape = NullRef \/ c.initialShapeState = Null THEN c
    ELSE LET dx == Sub(x, c.dragStart.x)
             dy == Sub(y, c.dragStart.y)
         IN [c EXCEPT !.shapes[c.selectedShape] =
                          DragShape(c.shapes[c.selectedShape], c.initialShapeState, dx, dy)]

\* a plausible slip: the flag is toggled instead of cleared
stopDraggingToggle(c) == [c EXCEPT !.isDragging = ~c.isDragging, !.initialShapeState = Null]

stopDragging(c) == [c EXCEPT !.isDragging = FALSE, !.initialShapeState = Null]

\* a plausible slip: the gesture begins whether or not a handle was hit
startResizingAlways(c, x, y) ==
    IF c.selectedShape = NullRef THEN c
    ELSE LET bounds == getShapeBounds(c.shapes[c.selectedShape])
             handle == getResizeHandleAtPoint(x, y, bounds)
         IN [c EXCEPT !.resizeHandle = handle,
                      !.isResizing = TRUE,
                      !.dragStart = Pt(x, y),
                      !.initialShapeState = JsonClone(c.shapes[c.selectedShape])]

startResizing(c, x, y) ==
    IF c.selectedShape = NullRef THEN c
    ELSE LET bounds == getShapeBounds(c.shapes[c.selectedShape])
             handle == getResizeHandleAtPoint(x, y, bounds)
         IN IF handle # NoHandle
            THEN [c EXCEPT !.resizeHandle = handle,
                           !.isResizing = TRUE,
                           !.dragStart = Pt(x, y),
                           !.initialShapeState = JsonClone(c.shapes[c.selectedShape])]
            ELSE [c EXCEPT !.resizeHandle = handle]

\* the assignments of updateResizing to the selected shape s
ResizeShape(s, init, handle, dx, dy) ==
    IF s.type \in {"rectangle", "diamond"} /\ handle = "br"
    THEN [s EXCEPT !.width = Add(NumField(init, "width"), dx),
                   !.height = Add(NumField(init, "height"), dy)]
    ELSE s

updateResizing(c, x, y) ==
    IF ~c.isResizing \/ c.selectedShape = NullRef \/ c.initialShapeState = Null
       \/ c.resizeHandle = NoHandle
    THEN c
    ELSE LET dx == Sub(x, c.dragStart.x)
             dy == Sub(y, c.dragStart.y)
         IN [c EXCEPT !.shapes[c.selectedShape] =
                          ResizeShape(c.shapes[c.selectedShape], c.initialShapeState,
                                      c.resizeHandle, dx, dy)]

stopResizing(c) ==
    [c EXCEPT !.isResizing = FALSE, !.resizeHandle = NoHandle, !.initialShapeState = Null]

----------------------------------------------------------------------------
(* The scenes and the pointer positions of the model *)

\* the shapes the first object of the scene is drawn from: every variant, and a
\* rectangle drawn leftward/upward (negative extents)
FirstShapes ==
    {Rect("s1", "rectangle", 0, 0, 100, 100),
     Rect("s1", "rectangle", 100, 100, -50, -30),
     Rect("s1", "diamond", 50, 80, 50, 20),
     Ellipse("s1", 50, 50, 50, 50),
     Line("s1", "line", 0, 0, 100, 100),
     Line("s1", "arrow", 100, 0, 0, 100),
     FreeDraw("s1", <<Pt(0, 0), Pt(100, 50), Pt(50, 100)>>),
     Text("s1", 0, 80, 100, 20)}

\* the shapes the second object of the scene is drawn from
SecondShapes ==
    {Line("s2", "line", 0, 0, 50, 100)}

Scenes == {<<a, b>> : a \in FirstShapes, b \in SecondShapes}

\* the pointer positions passed to the gesture methods
PointerPts == {Pt(100, 100), Pt(50, 80)}

Refs == {NullRef} \cup (1..2)

----------------------------------------------------------------------------
(* History variables *)

\* a call without arguments, or one whose arguments the history does not keep
Call(op) == [op |-> op, x |-> 0, y |-> 0, ref |-> NullRef]

\* startResizing(p.x, p.y)
CallAt(op, p) == [op |-> op, x |-> p.x, y |-> p.y, ref |-> NullRef]

\* setSelectedShape(ref)
CallOn(op, ref) == [op |-> op, x |-> 0, y |-> 0, ref |-> ref]

\* no gesture is being followed
NoTrace == [live |-> FALSE, ref |-> NullRef, sx |-> 0, sy |-> 0, start |-> Null,
            handle |-> NoHandle, calls |-> 0, x |-> 0, y |-> 0]

\* a gesture started at (x, y) on the selected shape of c
StartTrace(c, x, y, handle) ==
    [live |-> TRUE, ref |-> c.selectedShape, sx |-> x, sy |-> y,
     start |-> c.shapes[c.selectedShape], handle |-> handle, calls |-> 0,
     x |-> x, y |-> y]

\* one more update call of the followed gesture, at p (the calls are counted up to 2)
Updated(t, p) ==
    IF t.live
    THEN [t EXCEPT !.calls = IF t.calls < 2 THEN t.calls + 1 ELSE 2, !.x = p.x, !.y = p.y]
    ELSE t

\* no component of the pages is mounted
IdlePages ==
    /\ kanban = Null
    /\ chat = Null
    /\ mount = Null

----------------------------------------------------------------------------
(* The state machine *)

Init ==
    /\ shapes \in Scenes
    /\ selectedShape = NullRef
    /\ isDragging = FALSE
    /\ isResizing = FALSE
    /\ dragStart = Pt(0, 0)
    /\ initialShapeState = Null
    /\ resizeHandle = NoHandle
    /\ threw = FALSE
    /\ lastCall = Call("new")
    /\ dragTrace = NoTrace
    /\ resizeTrace = NoTrace
    /\ gestures = 0
    /\ query = Null
    /\ storage = Null
    /\ layoutCall = Null
    /\ conv = Null
    /\ IdlePages

\* the controller and the shapes after a call
Commit(c) ==
    /\ shapes' = c.shapes
    /\ selectedShape' = c.selectedShape
    /\ isDragging' = c.isDragging
    /\ isResizing' = c.isResizing
    /\ dragStart' = c.dragStart
    /\ initialShapeState' = c.initialShapeState
    /\ resizeHandle' = c.resizeHandle
    /\ threw' = c.threw

SetSelectedShape(ref) ==
    /\ Commit(setSelectedShape(State, ref))
    /\ lastCall' = CallOn("setSelectedShape", ref)
    /\ dragTrace' = NoTrace
    /\ resizeTrace' = NoTrace
    /\ UNCHANGED <<gestures, query, serviceVars>>

StartDragging(p) ==
    /\ selectedShape = NullRef \/ gestures < MaxGestures
    /\ Commit(startDragging(State, p.x, p.y))
    /\ lastCall' = Call("startDragging")
    /\ dragTrace' = IF selectedShape = NullRef THEN NoTrace ELSE StartTrace(State, p.x, p.y, NoHandle)
    /\ gestures' = IF selectedShape = NullRef THEN gestures ELSE gestures + 1
    /\ UNCHANGED <<resizeTrace, query, serviceVars>>

UpdateDragging(p) ==
    /\ Commit(updateDragging(State, p.x, p.y))
    /\ lastCall' = Call("updateDragging")
    /\ dragTrace' = Updated(dragTrace, p)
    /\ UNCHANGED <<resizeTrace, gestures, query, serviceVars>>

StopDragging ==
    /\ Commit(stopDragging(State))
    /\ lastCall' = Call("stopDragging")
    /\ dragTrace' = NoTrace
    /\ resizeTrace' = NoTrace
    /\ UNCHANGED <<gestures, query, serviceVars>>

\* startResizing(p) would begin a gesture
HitsHandle(p) ==
    /\ selectedShape # NullRef
    /\ getResizeHandleAtPoint(p.x, p.y, getShapeBounds(shapes[selectedShape])) # NoHandle

StartResizing(p) ==
    /\ ~HitsHandle(p) \/ gestures < MaxGestures
    /\ Commit(startResizing(State, p.x, p.y))
    /\ lastCall' = CallAt("startResizing", p)
    /\ resizeTrace' = IF HitsHandle(p)
                      THEN StartTrace(State, p.x, p.y,
                               getResizeHandleAtPoint(p.x, p.y, getShapeBounds(shapes[selectedShape])))
                      ELSE resizeTrace
    /\ gestures' = IF HitsHandle(p) THEN gestures + 1 ELSE gestures
    /\ dragTrace' = NoTrace
    /\ UNCHANGED <<query, serviceVars>>

UpdateResizing(p) ==
    /\ Commit(updateResizing(State, p.x, p.y))
    /\ lastCall' = Call("updateResizing")
    /\ resizeTrace' = Updated(resizeTrace, p)
    /\ dragTrace' = NoTrace
    /\ UNCHANGED <<gestures, query, serviceVars>>

StopResizing ==
    /\ Commit(stopResizing(State))
    /\ lastCall' = Call("stopResizing")
    /\ resizeTrace' = NoTrace
    /\ dragTrace' = NoTrace
    /\ UNCHANGED <<gestures, query, serviceVars>>

Next ==
    \/ \E ref \in Refs : SetSelectedShape(ref)
    \/ \E p \in PointerPts : StartDragging(p)
    \/ \E p \in PointerPts : UpdateDragging(p)
    \/ StopDragging
    \/ \E p \in PointerPts : StartResizing(p)
    \/ \E p \in PointerPts : UpdateResizing(p)
    \/ StopResizing

Spec == Init /\ [][Next]_vars

----------------------------------------------------------------------------
(* Calls of the pure methods: the input is drawn by the initial state, the  *)
(* call records its result                                                  *)

\* origins and signed extents of the rectangles and diamonds passed to getShapeBounds
OriginCoords == {-20, 0, 100}

Extents == {-50, -30, 0, 30, 50}

BoundsShapes ==
    {Rect("q", t, px, py, w, h) :
        t \in {"rectangle", "diamond"}, px \in OriginCoords, py \in OriginCoords,
        w \in Extents, h \in Extents}

\* bounding boxes and points passed to getResizeHandleAtPoint: boxes wider and
\* narrower than the tolerance, points at, near, 10 units from and far from corners
HandleBoxes ==
    {Bounds(bx, by, w, h) : bx \in {0, 50}, by \in {0, 70}, w \in {0, 12, 100}, h \in {0, 12, 100}}

HandleCoords == {-8, -6, 0, 6, 8, 50, 92, 100, 106, 108}

HandlePts == {Pt(px, py) : px \in HandleCoords, py \in HandleCoords}

\* the longest point list of a free-draw shape passed to a pure method
MaxPoints == 3

\* signed radii of the ellipses passed to getShapeBounds
Radii == {-30, 0, 30, 50}

EllipseShapes ==
    {Ellipse("q", px, py, rx, ry) : px \in {0, 100}, py \in {0, 100}, rx \in Radii, ry \in Radii}

\* lines and arrows running in every direction, degenerate ones included
LineShapes ==
    {Line("q", t, px, py, tx, ty) :
        t \in {"line", "arrow"}, px \in OriginCoords, py \in OriginCoords,
        tx \in OriginCoords, ty \in OriginCoords}

StrokePts == {Pt(0, 0), Pt(10, 5), Pt(-3, 8), Pt(10, 8)}

RECURSIVE PointLists(_)
PointLists(n) ==
    IF n = 0 THEN {<<>>}
    ELSE LET shorter == PointLists(n - 1)
         IN shorter \cup {Append(l, p) : l \in {k \in shorter : Len(k) = n - 1}, p \in StrokePts}

FreeDrawShapes == {FreeDraw("q", pts) : pts \in PointLists(MaxPoints)}

TextShapes ==
    {Text("q", px, py, w, h) : px \in OriginCoords, py \in OriginCoords, w \in {0, 100}, h \in {0, 20}}

\* shapes and points passed to isPointInShape: boxes of either orientation,
\* ellipses, segments and polylines, with points on, just inside, just outside
\* and far from their outlines
HitExtents == {-50, 0, 50}

HitStrokePts == {Pt(0, 0), Pt(100, 0), Pt(100, 50)}

RECURSIVE HitPointLists(_)
HitPointLists(n) ==
    IF n = 0 THEN {<<>>}
    ELSE LET shorter == HitPointLists(n - 1)
         IN shorter \cup {Append(l, p) : l \in {k \in shorter : Len(k) = n - 1}, p \in HitStrokePts}

HitShapes ==
    {Rect("q", t, px, py, w, h) :
        t \in {"rectangle", "diamond"}, px \in {0, 100}, py \in {0, 100},
        w \in HitExtents, h \in HitExtents}
    \cup {Ellipse("q", px, py, rx, ry) : px \in {0, 100}, py \in {0}, rx \in Radii, ry \in Radii}
    \cup {Line("q", t, px, py, tx, ty) :
            t \in {"line", "arrow"}, px \in {0, 100}, py \in {0, 100},
            tx \in {0, 100}, ty \in {0, 100}}
    \cup {FreeDraw("q", pts) : pts \in HitPointLists(MaxPoints)}
    \cup {Text("q", px, py, w, h) : px \in {0, 100}, py \in {0}, w \in {0, 100}, h \in {20}}

HitCoords == {-10, -9, 0, 9, 10, 20, 21, 30, 50, 51, 59, 60, 100, 110}

HitPts == {Pt(px, py) : px \in HitCoords, py \in HitCoords}

Queries ==
    {[method |-> "getShapeBounds", shape |-> sh, done |-> FALSE, result |-> Null] :
        sh \in BoundsShapes \cup EllipseShapes \cup LineShapes \cup FreeDrawShapes \cup TextShapes}
    \cup
    {[method |-> "getResizeHandleAtPoint", x |-> p.x, y |-> p.y, bounds |-> b,
      done |-> FALSE, result |-> NoHandle] : p \in HandlePts, b \in HandleBoxes}

    \cup
    {[method |-> "isPointInShape", x |-> p.x, y |-> p.y, shape |-> sh,
      done |-> FALSE, result |-> FALSE] : p \in HitPts, sh \in HitShapes}

InitQuery ==
    /\ shapes = <<Rect("s1", "rectangle", 0, 0, 100, 100), Line("s2", "line", 0, 0, 50, 100)>>
    /\ selectedShape = NullRef
    /\ isDragging = FALSE
    /\ isResizing = FALSE
    /\ dragStart = Pt(0, 0)
    /\ initialShapeState = Null
    /\ resizeHandle = NoHandle
    /\ threw = FALSE
    /\ lastCall = Call("new")
    /\ dragTrace = NoTrace
    /\ resizeTrace = NoTrace
    /\ gestures = 0
    /\ query \in Queries
    /\ storage = Null
    /\ layoutCall = Null
    /\ conv = Null
    /\ IdlePages

GetShapeBounds ==
    /\ query.method = "getShapeBounds"
    /\ ~query.done
    /\ query' = [query EXCEPT !.done = TRUE, !.result = getShapeBounds(query.shape)]
    /\ UNCHANGED <<ctrlVars, serviceVars>>

GetResizeHandleAtPoint ==
    /\ query.method = "getResizeHandleAtPoint"
    /\ ~query.done
    /\ query' = [query EXCEPT !.done = TRUE,
                              !.result = getResizeHandleAtPoint(query.x, query.y, query.bounds)]
    /\ UNCHANGED <<ctrlVars, serviceVars>>

IsPointInShape ==
    /\ query.method = "isPointInShape"
    /\ ~query.done
    /\ query' = [query EXCEPT !.done = TRUE,
                              !.result = isPointInShape(query.x, query.y, query.shape)]
    /\ UNCHANGED <<ctrlVars, serviceVars>>

NextQuery ==
    \/ GetShapeBounds
    \/ GetResizeHandleAtPoint
    \/ IsPointInShape

SpecQuery == InitQuery /\ [][NextQuery]_vars

----------------------------------------------------------------------------
(* CanvasLayoutService (src/services/canvasLayoutService.ts): the layout    *)
(* preferences kept as JSON text in one localStorage item. The store is     *)
(* taken to accept every write.                                             *)

\* the sidebar width of the default preferences
DefaultSidebarWidth == 280

\* the limits of setSidebarWidth
MinSidebarWidth == 200

MaxSidebarWidth == 400

LayoutModes == {"topbar", "sidebar-left", "sidebar-right", "minimal"}

\* A JSON text is the empty string, a text that is not JSON (such as a
\* truncated one), or an object literal: its members in order, each a key and
\* a value token.
EmptyText == [text |-> "empty"]

MalformedText == [text |-> "malformed"]

ObjectText(members) == [text |-> "object", members |-> members]

\* JSON.stringify of a string, of a number (NaN is written as null) and of a boolean
StringToken(v) == [t |-> "string", v |-> v]

NumberToken(v) == IF IsNaN(v) THEN [t |-> "null"] ELSE [t |-> "number", v |-> v]

BooleanToken(v) == [t |-> "boolean", v |-> v]

\* JSON.stringify of a preferences object: its properties in insertion order
JsonStringify(prefs) ==
    ObjectText(<<[key |-> "layoutMode", tok |-> StringToken(prefs.layoutMode)],
                 [key |-> "sidebarWidth", tok |-> NumberToken(prefs.sidebarWidth)],
                 [key |-> "showGridLines", tok |-> BooleanToken(prefs.showGridLines)],
                 [key |-> "snapToGrid", tok |-> BooleanToken(prefs.snapToGrid)]>>)

\* the value a token is parsed to
TokenValue(tok) == IF tok.t = "null" THEN Null ELSE tok.v

\* JSON.parse: throws a SyntaxError on a text that is not JSON, and otherwise
\* builds the object member by member (a later member of the same key wins)
JsonParse(text) ==
    IF text.text # "object" THEN [thrown |-> TRUE]
    ELSE LET m == text.members
             last(k) == CHOOSE i \in DOMAIN m :
                            m[i].key = k /\ \A j \in DOMAIN m : m[j].key = k => j <= i
         IN [thrown |-> FALSE,
             value |-> [k \in {m[i].key : i \in DOMAIN m} |-> TokenValue(m[last(k)].tok)]]

getDefaultPreferences ==
    [layoutMode |-> "topbar", sidebarWidth |-> DefaultSidebarWidth,
     showGridLines |-> FALSE, snapToGrid |-> FALSE]

\* the outcome of a call: whether it raised, and the value it returned
Returned(v) == [raised |-> FALSE, value |-> v]

\* a plausible slip: JSON.parse is called outside the try block
getLocalPreferencesParseOutsideTry(store) ==
    IF store = Null \/ store = EmptyText THEN Returned(getDefaultPreferences)
    ELSE LET parsed == JsonParse(store)
         IN IF parsed.thrown THEN [raised |-> TRUE, value |-> getDefaultPreferences]
            ELSE Returned(parsed.value)

\* getLocalPreferences: getItem gives null for a missing item, and the empty
\* string is falsy; a SyntaxError of JSON.parse is caught
getLocalPreferences(store) ==
    IF store = Null \/ store = EmptyText THEN Returned(getDefaultPreferences)
    ELSE LET parsed == JsonParse(store)
         IN IF parsed.thrown THEN Returned(getDefaultPreferences)
            ELSE Returned(parsed.value)

\* saveLocalPreferences: the item after setItem
saveLocalPreferences(preferences) == JsonStringify(preferences)

\* the outcome of a mutator and the item it leaves
Saved(preferences) ==
    [raised |-> FALSE, value |-> preferences, store |-> saveLocalPreferences(preferences)]

setLayoutMode(store, mode) ==
    LET preferences == getLocalPreferences(store).value
    IN Saved([preferences EXCEPT !.layoutMode = mode])

getLayoutMode(store) == Returned(getLocalPreferences(store).value.layoutMode)

\* a plausible slip: only the upper limit is applied
setSidebarWidthNoFloor(store, width) ==
    LET preferences == getLocalPreferences(store).value
    IN Saved([preferences EXCEPT !.sidebarWidth = MathMin(MaxSidebarWidth, width)])

setSidebarWidth(store, width) ==
    LET preferences == getLocalPreferences(store).value
    IN Saved([preferences EXCEPT
                 !.sidebarWidth = MathMax(MinSidebarWidth, MathMin(MaxSidebarWidth, width))])

\* a plausible slip: the toggle starts from the defaults, not from the stored record
toggleGridLinesFromDefaults(store) ==
    LET preferences == getDefaultPreferences
    IN Saved([preferences EXCEPT !.showGridLines = ~getLocalPreferences(store).value.showGridLines])

toggleGridLines(store) ==
    LET preferences == getLocalPreferences(store).value
    IN Saved([preferences EXCEPT !.showGridLines = ~preferences.showGridLines])

toggleSnapToGrid(store) ==
    LET preferences == getLocalPreferences(store).value
    IN Saved([preferences EXCEPT !.snapToGrid = ~preferences.snapToGrid])

resetToDefaults == Saved(getDefaultPreferences)

\* the widths passed to setSidebarWidth: below, at, between, at and above the limits
WidthArgs == {-5, 0, 199, 200, 250, 280, 400, 401, 1000}

\* the records an earlier session of the service can have left in the item
StoredPreferences ==
    {[layoutMode |-> m, sidebarWidth |-> w, showGridLines |-> g, snapToGrid |-> n] :
        m \in LayoutModes, w \in {MinSidebarWidth, DefaultSidebarWidth, MaxSidebarWidth},
        g \in BOOLEAN, n \in BOOLEAN}

\* the item when the page loads: missing, empty, not JSON, or written by the service
InitialItems ==
    {Null, EmptyText, MalformedText} \cup {JsonStringify(pr) : pr \in StoredPreferences}

\* the constructed controller over a scene, no pure method being called
IdleCanvas ==
    /\ shapes = <<Rect("s1", "rectangle", 0, 0, 100, 100), Line("s2", "line", 0, 0, 50, 100)>>
    /\ selectedShape = NullRef
    /\ isDragging = FALSE
    /\ isResizing = FALSE
    /\ dragStart = Pt(0, 0)
    /\ initialShapeState = Null
    /\ resizeHandle = NoHandle
    /\ threw = FALSE
    /\ lastCall = Call("new")
    /\ dragTrace = NoTrace
    /\ resizeTrace = NoTrace
    /\ gestures = 0
    /\ query = Null

canvasVars == <<ctrlVars, query>>

\* a call of the service: the method, its argument, the item before the call
\* and the outcome
LayoutCall(op, mode, width, before, outcome) ==
    [op |-> op, mode |-> mode, width |-> width, before |-> before,
     raised |-> outcome.raised, value |-> outcome.value]

InitLayout ==
    /\ IdleCanvas
    /\ storage \in InitialItems
    /\ layoutCall = Null
    /\ conv = Null
    /\ IdlePages

GetLocalPreferences ==
    /\ layoutCall' = LayoutCall("getLocalPreferences", "", 0, storage, getLocalPreferences(storage))
    /\ UNCHANGED <<storage, conv, canvasVars, pageVars>>

GetLayoutMode ==
    /\ layoutCall' = LayoutCall("getLayoutMode", "", 0, storage, getLayoutMode(storage))
    /\ UNCHANGED <<storage, conv, canvasVars, pageVars>>

SetLayoutMode(mode) ==
    LET out == setLayoutMode(storage, mode)
    IN /\ storage' = out.store
       /\ layoutCall' = LayoutCall("setLayoutMode", mode, 0, storage, out)
       /\ UNCHANGED <<conv, canvasVars, pageVars>>

SetSidebarWidth(width) ==
    LET out == setSidebarWidth(storage, width)
    IN /\ storage' = out.store
       /\ layoutCall' = LayoutCall("setSidebarWidth", "", width, storage, out)
       /\ UNCHANGED <<conv, canvasVars, pageVars>>

ToggleGridLines ==
    LET out == toggleGridLines(storage)
    IN /\ storage' = out.store
       /\ layoutCall' = LayoutCall("toggleGridLines", "", 0, storage, out)
       /\ UNCHANGED <<conv, canvasVars, pageVars>>

ToggleSnapToGrid ==
    LET out == toggleSnapToGrid(storage)
    IN /\ storage' = out.store
       /\ layoutCall' = LayoutCall("toggleSnapToGrid", "", 0, storage, out)
       /\ UNCHANGED <<conv, canvasVars, pageVars>>

ResetToDefaults ==
    LET out == resetToDefaults
    IN /\ storage' = out.store
       /\ layoutCall' = LayoutCall("resetToDefaults", "", 0, storage, out)
       /\ UNCHANGED <<conv, canvasVars, pageVars>>

NextLayout ==
    \/ GetLocalPreferences
    \/ GetLayoutMode
    \/ \E mode \in LayoutModes : SetLayoutMode(mode)
    \/ \E width \in WidthArgs : SetSidebarWidth(width)
    \/ ToggleGridLines
    \/ ToggleSnapToGrid
    \/ ResetToDefaults

SpecLayout == InitLayout /\ [][NextLayout]_vars

----------------------------------------------------------------------------
(* convertSpecToShapes (diagram service): the layout pass that keeps the    *)
(* nodes of a diagram spec apart, then the shapes of the nodes and of the   *)
(* connections. `conv` holds the argument, the locals and the result of one *)
(* run; the steps are the iterations of its loops.                          *)

\* the longest node list of a diagram spec
MaxNodes == 2

\* the longest connection list of a diagram spec
MaxConnections == 2

MIN_SPACING_X == 200

MIN_SPACING_Y == 150

maxAttempts == 5

\* the attempts that move a node right (attemptCount < 3)
RightAttempts == 3

\* what a displacement adds to the spacing (MIN_SPACING_X + 50, MIN_SPACING_Y + 50)
StepMargin == 50

\* the least width and height of a node (Math.max(node.width, 80), Math.max(node.height, 50))
MinNodeWidth == 80

MinNodeHeight == 50

\* the default of offsetX and offsetY
DefaultOffset == 100

\* the shift of a label above the point it is centred on (10 in a node, 15 on an arrow)
NodeLabelRise == 10

ArrowLabelRise == 15

\* n / 2; the model's nodes have extents and coordinates for which it is exact
Half(n) == n \div 2

\* the nodes a spec is made of, before they get their ids: a rectangle smaller
\* than the least size, a diamond wider and taller than every displacement, an
\* ellipse, a text away from the others, and a wide flat rectangle
NodeKinds ==
    {[text |-> "A", type |-> "rectangle", x |-> 0, y |-> 0, width |-> 40, height |-> 30],
     [text |-> "B", type |-> "diamond", x |-> 0, y |-> 0, width |-> 1000, height |-> 400],
     [text |-> "C", type |-> "ellipse", x |-> 0, y |-> 0, width |-> 120, height |-> 60],
     [text |-> "D", type |-> "text", x |-> 300, y |-> 0, width |-> 120, height |-> 60],
     [text |-> "E", type |-> "rectangle", x |-> 0, y |-> 0, width |-> 600, height |-> 50]}

DiagramNode(id, k) ==
    [id |-> id, text |-> k.text, type |-> k.type, x |-> k.x, y |-> k.y,
     width |-> k.width, height |-> k.height]

\* node lists of length 1..n; the i-th node has the id i
RECURSIVE NodeLists(_)
NodeLists(n) ==
    IF n = 0 THEN {<<>>}
    ELSE LET shorter == NodeLists(n - 1)
         IN shorter \cup {Append(l, DiagramNode(n, k)) :
                              l \in {m \in shorter : Len(m) = n - 1}, k \in NodeKinds}

\* the label of a connection without one
NoLabel == ""

\* the connections a spec is made of
Links ==
    {[fromNode |-> 1, toNode |-> 2, label |-> "yes"],
     [fromNode |-> 2, toNode |-> 1, label |-> NoLabel],
     [fromNode |-> 1, toNode |-> 1, label |-> NoLabel]}

RECURSIVE LinkLists(_, _)
LinkLists(n, links) ==
    IF n = 0 THEN {<<>>}
    ELSE LET shorter == LinkLists(n - 1, links)
         IN shorter \cup {Append(l, [c EXCEPT !.id = n] ) :
                              l \in {m \in shorter : Len(m) = n - 1},
                              c \in {[id |-> 0, fromNode |-> k.fromNode, toNode |-> k.toNode,
                                      label |-> k.label] : k \in links}}

\* the specs generateDiagramFromText lets through: at least one node, every
\* node with an id and a text, every connection between nodes of the spec
DiagramSpecs ==
    {sp \in {[nodes |-> ns, connections |-> cs] :
                ns \in NodeLists(MaxNodes) \ {<<>>}, cs \in LinkLists(MaxConnections, Links)} :
        \A i \in DOMAIN sp.connections :
            /\ \E j \in DOMAIN sp.nodes : sp.nodes[j].id = sp.connections[i].fromNode
            /\ \E j \in DOMAIN sp.nodes : sp.nodes[j].id = sp.connections[i].toNode}

\* the locals at the entry of convertSpecToShapes(spec); `moves` and `placed`
\* are history: the displacements of the node being laid out, and for each
\* node laid out its requested and final position, its attempts and its moves
NewRun(spec) ==
    [spec |-> spec, pc |-> "layout", index |-> 1,
     finalX |-> 0, finalY |-> 0, nodeWidth |-> 0, nodeHeight |-> 0,
     hasOverlap |-> FALSE, attemptCount |-> 0,
     occupiedRegions |-> <<>>, nodeMap |-> <<>>,
     shapes |-> <<>>, nodeIdToShapeId |-> <<>>, uuids |-> 0,
     moves |-> <<>>, placed |-> <<>>]

\* map.set(key, value) and obj[key] = value
MapSet(map, key, value) ==
    [k \in DOMAIN map \cup {key} |-> IF k = key THEN value ELSE map[k]]

\* the overlap test of the layout loop: the boxes less than the spacing apart
Overlaps(fx, fy, w, h, region) ==
    /\ fx < region.x + region.width + MIN_SPACING_X
    /\ fx + w + MIN_SPACING_X > region.x
    /\ fy < region.y + region.height + MIN_SPACING_Y
    /\ fy + h + MIN_SPACING_Y > region.y

\* the head of the forEach body of the layout pass
beginNode(r) ==
    LET node == r.spec.nodes[r.index]
    IN [r EXCEPT !.finalX = node.x, !.finalY = node.y,
                 !.nodeWidth = MathMax(node.width, MinNodeWidth),
                 !.nodeHeight = MathMax(node.height, MinNodeHeight),
                 !.hasOverlap = TRUE, !.attemptCount = 0,
                 !.pc = "while", !.moves = <<>>]

\* a plausible slip: a displacement is the spacing itself
attemptStepIsSpacing(r) ==
    LET hit == \E i \in DOMAIN r.occupiedRegions :
                   Overlaps(r.finalX, r.finalY, r.nodeWidth, r.nodeHeight, r.occupiedRegions[i])
    IN IF ~hit THEN [r EXCEPT !.hasOverlap = FALSE, !.attemptCount = r.attemptCount + 1]
       ELSE IF r.attemptCount < RightAttempts
       THEN [r EXCEPT !.hasOverlap = TRUE, !.finalX = r.finalX + MIN_SPACING_X,
                      !.attemptCount = r.attemptCount + 1,
                      !.moves = Append(r.moves, "right")]
       ELSE [r EXCEPT !.hasOverlap = TRUE, !.finalY = r.finalY + MIN_SPACING_Y,
                      !.attemptCount = r.attemptCount + 1,
                      !.moves = Append(r.moves, "down")]

\* a plausible slip: the node moves down from the second attempt on
attemptDownEarly(r) ==
    LET hit == \E i \in DOMAIN r.occupiedRegions :
                   Overlaps(r.finalX, r.finalY, r.nodeWidth, r.nodeHeight, r.occupiedRegions[i])
    IN IF ~hit THEN [r EXCEPT !.hasOverlap = FALSE, !.attemptCount = r.attemptCount + 1]
       ELSE IF r.attemptCount < 1
       THEN [r EXCEPT !.hasOverlap = TRUE, !.finalX = r.finalX + MIN_SPACING_X + StepMargin,
                      !.attemptCount = r.attemptCount + 1,
                      !.moves = Append(r.moves, "right")]
       ELSE [r EXCEPT !.hasOverlap = TRUE, !.finalY = r.finalY + MIN_SPACING_Y + StepMargin,
                      !.attemptCount = r.attemptCount + 1,
                      !.moves = Append(r.moves, "down")]

\* one iteration of the while loop: the first region that overlaps displaces
\* the node (the for loop breaks there), right in the first attempts, down after
attempt(r) ==
    LET hit == \E i \in DOMAIN r.occupiedRegions :
                   Overlaps(r.finalX, r.finalY, r.nodeWidth, r.nodeHeight, r.occupiedRegions[i])
    IN IF ~hit THEN [r EXCEPT !.hasOverlap = FALSE, !.attemptCount = r.attemptCount + 1]
       ELSE IF r.attemptCount < RightAttempts
       THEN [r EXCEPT !.hasOverlap = TRUE, !.finalX = r.finalX + MIN_SPACING_X + StepMargin,
                      !.attemptCount = r.attemptCount + 1,
                      !.moves = Append(r.moves, "right")]
       ELSE [r EXCEPT !.hasOverlap = TRUE, !.finalY = r.finalY + MIN_SPACING_Y + StepMargin,
                      !.attemptCount = r.attemptCount + 1,
                      !.moves = Append(r.moves, "down")]

\* the tail of the forEach body of the layout pass; after the last node the
\* pass over the nodes that creates the shapes begins
placeNode(r) ==
    LET node == r.spec.nodes[r.index]
        region == [x |-> r.finalX, y |-> r.finalY, width |-> r.nodeWidth, height |-> r.nodeHeight]
        last == r.index = Len(r.spec.nodes)
    IN [r EXCEPT !.occupiedRegions = Append(r.occupiedRegions, region),
                 !.nodeMap = MapSet(r.nodeMap, node.id, region),
                 !.placed = Append(r.placed,
                                   [x |-> node.x, y |-> node.y, finalX |-> r.finalX,
                                    finalY |-> r.finalY, attempts |-> r.attemptCount,
                                    moves |-> r.moves, regions |-> r.occupiedRegions]),
                 !.index = IF last THEN 1 ELSE r.index + 1,
                 !.pc = IF last THEN "nodes" ELSE "layout"]

\* the shape of a node: the switch on node.type
PrimaryShape(id, node, x, y, width, height) ==
    IF node.type = "rectangle" THEN
        [id |-> id, type |-> "rectangle", x |-> x, y |-> y, width |-> width, height |-> height,
         strokeWidth |-> 2, strokeFill |-> "#ffffff", bgFill |-> "#3b82f6"]
    ELSE IF node.type = "diamond" THEN
        [id |-> id, type |-> "diamond", x |-> x, y |-> y, width |-> width, height |-> height,
         strokeWidth |-> 2, strokeFill |-> "#ffffff", bgFill |-> "#8b5cf6"]
    ELSE IF node.type = "ellipse" THEN
        [id |-> id, type |-> "ellipse", x |-> x, y |-> y, radX |-> Half(width),
         radY |-> Half(height), strokeWidth |-> 2, strokeFill |-> "#ffffff", bgFill |-> "#10b981"]
    ELSE
        [id |-> id, type |-> "text", x |-> x, y |-> y, width |-> width, height |-> height,
         text |-> node.text, fontSize |-> "Medium", strokeWidth |-> 1, strokeFill |-> "#ffffff"]

\* a text shape of no extent: the label of a node or of a connection
LabelShape(id, x, y, text, fill) ==
    [id |-> id, type |-> "text", x |-> x, y |-> y, width |-> 0, height |-> 0,
     text |-> text, fontSize |-> "Small", strokeWidth |-> 1, strokeFill |-> fill]

\* a plausible slip: the label is pushed before the shape it belongs to
emitNodeLabelFirst(r) ==
    LET node == r.spec.nodes[r.index]
        shapeId == r.uuids + 1
        nodeLayout == r.nodeMap[node.id]
        x == nodeLayout.x + DefaultOffset
        y == nodeLayout.y + DefaultOffset
        shape == PrimaryShape(shapeId, node, x, y, nodeLayout.width, nodeLayout.height)
        labelled == node.type # "text" /\ node.text # ""
        textShape == LabelShape(shapeId + 1, x + Half(nodeLayout.width),
                                y + Half(nodeLayout.height) - NodeLabelRise, node.text, "#ffffff")
        last == r.index = Len(r.spec.nodes)
    IN [r EXCEPT !.nodeIdToShapeId = MapSet(r.nodeIdToShapeId, node.id, shapeId),
                 !.shapes = IF labelled THEN r.shapes \o <<textShape, shape>>
                            ELSE Append(r.shapes, shape),
                 !.uuids = IF labelled THEN r.uuids + 2 ELSE r.uuids + 1,
                 !.index = IF last THEN 1 ELSE r.index + 1,
                 !.pc = IF last THEN "connections" ELSE "nodes"]

\* the forEach body of the pass over the nodes: the node's shape at its layout
\* position plus the offset, then its label unless the node is a text; uuidv4()
\* is the next unused id
emitNode(r) ==
    LET node == r.spec.nodes[r.index]
        shapeId == r.uuids + 1
        nodeLayout == r.nodeMap[node.id]
        x == nodeLayout.x + DefaultOffset
        y == nodeLayout.y + DefaultOffset
        shape == PrimaryShape(shapeId, node, x, y, nodeLayout.width, nodeLayout.height)
        labelled == node.type # "text" /\ node.text # ""
        textShape == LabelShape(shapeId + 1, x + Half(nodeLayout.width),
                                y + Half(nodeLayout.height) - NodeLabelRise, node.text, "#ffffff")
        last == r.index = Len(r.spec.nodes)
    IN [r EXCEPT !.nodeIdToShapeId = MapSet(r.nodeIdToShapeId, node.id, shapeId),
                 !.shapes = IF labelled THEN r.shapes \o <<shape, textShape>>
                            ELSE Append(r.shapes, shape),
                 !.uuids = IF labelled THEN r.uuids + 2 ELSE r.uuids + 1,
                 !.index = IF last THEN 1 ELSE r.index + 1,
                 !.pc = IF last THEN "connections" ELSE "nodes"]

\* where an arrow meets a shape: bottom centre (source) or top centre (target)
\* of a rectangle or diamond, x + radX, y + radY of an ellipse, the origin of a text
getConnectionPoint(shape, isSource) ==
    IF shape.type \in {"rectangle", "diamond"} THEN
        Pt(shape.x + Half(shape.width), IF isSource THEN shape.y + shape.height ELSE shape.y)
    ELSE IF shape.type = "ellipse" THEN
        Pt(shape.x + shape.radX, shape.y + shape.radY)
    ELSE Pt(shape.x, shape.y)

\* shapes.find(s => s.id === id), Null when there is none
FindShape(shapeList, id) ==
    IF \E i \in DOMAIN shapeList : shapeList[i].id = id
    THEN shapeList[CHOOSE i \in DOMAIN shapeList :
                       shapeList[i].id = id /\ \A j \in 1..(i - 1) : shapeList[j].id # id]
    ELSE Null

\* the forEach body of the pass over the connections: nothing for a connection
\* whose end is no node of the spec, else the arrow and, for a non-empty
\* label, a text above its midpoint
emitConnection(r) ==
    LET conn == r.spec.connections[r.index]
        next == [r EXCEPT !.index = r.index + 1]
    IN IF conn.fromNode \notin DOMAIN r.nodeIdToShapeId
          \/ conn.toNode \notin DOMAIN r.nodeIdToShapeId
       THEN next
       ELSE LET fromShape == FindShape(r.shapes, r.nodeIdToShapeId[conn.fromNode])
                toShape == FindShape(r.shapes, r.nodeIdToShapeId[conn.toNode])
            IN IF fromShape = Null \/ toShape = Null THEN next
               ELSE LET fromPoint == getConnectionPoint(fromShape, TRUE)
                        toPoint == getConnectionPoint(toShape, FALSE)
                        arrowShape == [id |-> r.uuids + 1, type |-> "arrow",
                                       x |-> fromPoint.x, y |-> fromPoint.y,
                                       toX |-> toPoint.x, toY |-> toPoint.y,
                                       strokeWidth |-> 2, strokeFill |-> "#a0aec0"]
                        midX == Half(fromPoint.x + toPoint.x)
                        midY == Half(fromPoint.y + toPoint.y)
                        labelShape == LabelShape(r.uuids + 2, midX, midY - ArrowLabelRise,
                                                 conn.label, "#a0aec0")
                    IN IF conn.label # NoLabel
                       THEN [next EXCEPT !.shapes = r.shapes \o <<arrowShape, labelShape>>,
                                         !.uuids = r.uuids + 2]
                       ELSE [next EXCEPT !.shapes = Append(r.shapes, arrowShape),
                                         !.uuids = r.uuids + 1]

\* return shapes
returnShapes(r) == [r EXCEPT !.pc = "done"]

InitDiagram ==
    /\ IdleCanvas
    /\ storage = Null
    /\ layoutCall = Null
    /\ conv \in {NewRun(spec) : spec \in DiagramSpecs}
    /\ IdlePages

BeginNode ==
    /\ conv.pc = "layout"
    /\ conv' = beginNode(conv)
    /\ UNCHANGED <<storage, layoutCall, canvasVars, pageVars>>

Attempt ==
    /\ conv.pc = "while"
    /\ conv.hasOverlap
    /\ conv.attemptCount < maxAttempts
    /\ conv' = attempt(conv)
    /\ UNCHANGED <<storage, layoutCall, canvasVars, pageVars>>

PlaceNode ==
    /\ conv.pc = "while"
    /\ ~(conv.hasOverlap /\ conv.attemptCount < maxAttempts)
    /\ conv' = placeNode(conv)
    /\ UNCHANGED <<storage, layoutCall, canvasVars, pageVars>>

EmitNode ==
    /\ conv.pc = "nodes"
    /\ conv' = emitNode(conv)
    /\ UNCHANGED <<storage, layoutCall, canvasVars, pageVars>>

EmitConnection ==
    /\ conv.pc = "connections"
    /\ conv.index <= Len(conv.spec.connections)
    /\ conv' = emitConnection(conv)
    /\ UNCHANGED <<storage, layoutCall, canvasVars, pageVars>>

ReturnShapes ==
    /\ conv.pc = "connections"
    /\ conv.index > Len(conv.spec.connections)
    /\ conv' = returnShapes(conv)
    /\ UNCHANGED <<storage, layoutCall, canvasVars, pageVars>>

NextDiagram ==
    \/ BeginNode
    \/ Attempt
    \/ PlaceNode
    \/ EmitNode
    \/ EmitConnection
    \/ ReturnShapes

SpecDiagram == InitDiagram /\ [][NextDiagram]_vars

\* the function runs to its return: no step waits for anything
SpecDiagramFair == SpecDiagram /\ WF_vars(NextDiagram)

----------------------------------------------------------------------------
(* useBoardState (src/components/WorkflowBoard/useBoardState.ts): the tasks *)
(* of a loaded kanban board, their optimistic updates and the debounced     *)
(* save of their positions. `kanban` holds the tasks state, the persist     *)
(* timer, the addTask request in flight and what saveTaskPositions was      *)
(* given; a task is its id, its column and its position.                    *)

\* number of addTask, deleteTask, moveTask and reorderTask calls in a run
MaxCalls == 3

Columns == {"todo", "doing"}

BoardTask(id, columnId, position) == [id |-> id, columnId |-> columnId, position |-> position]

\* the id of the optimistic task of an addTask call (`temp-task-${Date.now()}`)
TempId == 0

\* the task lists loadOrCreateBoard resolves to
LoadedTasks ==
    {<<BoardTask(1, "todo", 0), BoardTask(2, "todo", 1), BoardTask(3, "doing", 0)>>,
     <<BoardTask(1, "todo", 1), BoardTask(2, "doing", 0), BoardTask(3, "todo", 0)>>}

\* t put behind the tasks of a sorted list that are not after it
RECURSIVE InsertByPosition(_, _)
InsertByPosition(sorted, t) ==
    IF sorted = <<>> \/ sorted[Len(sorted)].position <= t.position
    THEN Append(sorted, t)
    ELSE Append(InsertByPosition(SubSeq(sorted, 1, Len(sorted) - 1), t), sorted[Len(sorted)])

\* list.sort((a, b) => a.position - b.position): the sort is stable
RECURSIVE SortByPosition(_)
SortByPosition(list) ==
    IF list = <<>> THEN <<>>
    ELSE InsertByPosition(SortByPosition(SubSeq(list, 1, Len(list) - 1)), list[Len(list)])

\* list.splice(start, 0, item): a start past the end appends
SpliceIn(list, start, item) ==
    LET at == IF start > Len(list) THEN Len(list) ELSE start
    IN SubSeq(list, 1, at) \o <<item>> \o SubSeq(list, at + 1, Len(list))

\* list.splice(start, 1), the list left
SpliceOut(list, start) ==
    SubSeq(list, 1, start) \o SubSeq(list, start + 2, Len(list))

\* list.map((t, i) => ({ ...t, position: i }))
Reassigned(list) == [i \in 1..Len(list) |-> [list[i] EXCEPT !.position = i - 1]]

\* the hook after the board was loaded: the tasks sorted by position, no timer
\* set, no addTask request in flight (`newTask` is the task of the request,
\* `created` the number of ids given out); `saved` is the column and position
\* the store holds of each task (history), `changed` the tasks a moveTask or
\* reorderTask call gave another column or position (history)
LoadedBoard(loaded) ==
    [tasks |-> SortByPosition(loaded),
     timer |-> [set |-> FALSE, updatedTasks |-> <<>>],
     adding |-> FALSE, newTask |-> BoardTask(TempId, "todo", 0), created |-> 3,
     calls |-> 0, op |-> "load",
     saved |-> [id \in {loaded[i].id : i \in DOMAIN loaded} |->
                   LET t == loaded[CHOOSE i \in DOMAIN loaded : loaded[i].id = id]
                   IN [columnId |-> t.columnId, position |-> t.position]],
     changed |-> {}]

\* schedulePersist with a board loaded: the pending timer is cleared, and a
\* timer is set that will save updatedTasks
schedulePersist(k, updatedTasks) ==
    [k EXCEPT !.timer = [set |-> TRUE, updatedTasks |-> updatedTasks]]

\* the timer callback: saveTaskPositions(userId, board.id, updatedTasks)
persist(k) ==
    LET given == k.timer.updatedTasks
        ids == {given[i].id : i \in DOMAIN given}
    IN [k EXCEPT !.timer = [set |-> FALSE, updatedTasks |-> <<>>],
                 !.saved = [id \in DOMAIN k.saved \cup ids |->
                               IF id \in ids
                               THEN LET t == given[CHOOSE i \in DOMAIN given : given[i].id = id]
                                    IN [columnId |-> t.columnId, position |-> t.position]
                               ELSE k.saved[id]]]

\* the tasks of `after` that have another column or position than in `before`
Changed(before, after) ==
    {after[i].id : i \in {j \in DOMAIN after :
                              \E h \in DOMAIN before :
                                  /\ before[h].id = after[j].id
                                  /\ \/ before[h].columnId # after[j].columnId
                                     \/ before[h].position # after[j].position}}

moveTask(k, taskId, toColumnId, toIndex) ==
    IF ~\E i \in DOMAIN k.tasks : k.tasks[i].id = taskId THEN k
    ELSE LET prev == k.tasks
             task == prev[CHOOSE i \in DOMAIN prev : prev[i].id = taskId]
             without == SelectSeq(prev, LAMBDA t : t.id # taskId)
             destTasks == SortByPosition(SelectSeq(without, LAMBDA t : t.columnId = toColumnId))
             reassigned == Reassigned(SpliceIn(destTasks, toIndex,
                                               [task EXCEPT !.columnId = toColumnId]))
             result == SelectSeq(without, LAMBDA t : t.columnId # toColumnId) \o reassigned
             updatedTasks == SelectSeq(result, LAMBDA t : \/ t.columnId = toColumnId
                                                          \/ t.columnId = task.columnId)
         IN [schedulePersist(k, updatedTasks) EXCEPT
                 !.tasks = result, !.changed = k.changed \cup Changed(prev, result)]

reorderTask(k, columnId, fromIndex, toIndex) ==
    LET prev == k.tasks
        colTasks == SortByPosition(SelectSeq(prev, LAMBDA t : t.columnId = columnId))
        moved == colTasks[fromIndex + 1]
        reassigned == Reassigned(SpliceIn(SpliceOut(colTasks, fromIndex), toIndex, moved))
        result == SelectSeq(prev, LAMBDA t : t.columnId # columnId) \o reassigned
    IN [schedulePersist(k, reassigned) EXCEPT
            !.tasks = result, !.changed = k.changed \cup Changed(prev, result)]

\* addTask up to its await: the optimistic task, at the end of its column
addTask(k, columnId) ==
    LET colTasks == SelectSeq(k.tasks, LAMBDA t : t.columnId = columnId)
        position == Len(colTasks)
        optimistic == BoardTask(TempId, columnId, position)
    IN [k EXCEPT !.tasks = Append(k.tasks, optimistic), !.adding = TRUE,
                 !.newTask = optimistic]

\* the column and position of a task written to the store
Stored(saved, task) ==
    [id \in DOMAIN saved \cup {task.id} |->
        IF id = task.id THEN [columnId |-> task.columnId, position |-> task.position]
        ELSE saved[id]]

\* addTask after svc.addTask resolved: the created task, which is the task of
\* the request under the id the store gave it, takes the place of the
\* optimistic one
addTaskCreated(k) ==
    LET created == [k.newTask EXCEPT !.id = k.created + 1]
    IN [k EXCEPT !.tasks = [i \in DOMAIN k.tasks |->
                               IF k.tasks[i].id = TempId THEN created ELSE k.tasks[i]],
                 !.adding = FALSE, !.created = k.created + 1,
                 !.saved = Stored(k.saved, created)]

\* addTask after svc.addTask rejected: the optimistic task is taken out
addTaskFailed(k) ==
    [k EXCEPT !.tasks = SelectSeq(k.tasks, LAMBDA t : t.id # TempId), !.adding = FALSE]

\* deleteTask: the task leaves the tasks
deleteTask(k, taskId) ==
    [k EXCEPT !.tasks = SelectSeq(k.tasks, LAMBDA t : t.id # taskId)]

\* the indices a drop can name: the places of a column of up to three tasks
DropIndices == 0..2

\* the ids of the tasks of the board
TaskIds(k) == {k.tasks[i].id : i \in DOMAIN k.tasks}

\* the board was loaded; nothing else is on the page
InitBoard ==
    /\ IdleCanvas
    /\ storage = Null
    /\ layoutCall = Null
    /\ conv = Null
    /\ kanban \in {LoadedBoard(loaded) : loaded \in LoadedTasks}
    /\ chat = Null
    /\ mount = Null

\* one more call of the hook
Called(k, op) == [k EXCEPT !.calls = k.calls + 1, !.op = op]

boardFrame == <<canvasVars, storage, layoutCall, conv, chat, mount>>

MoveTask(taskId, toColumnId, toIndex) ==
    /\ kanban.calls < MaxCalls
    /\ kanban' = Called(moveTask(kanban, taskId, toColumnId, toIndex), "moveTask")
    /\ UNCHANGED boardFrame

ReorderTask(columnId, fromIndex, toIndex) ==
    /\ kanban.calls < MaxCalls
    /\ fromIndex < Len(SelectSeq(kanban.tasks, LAMBDA t : t.columnId = columnId))
    /\ kanban' = Called(reorderTask(kanban, columnId, fromIndex, toIndex), "reorderTask")
    /\ UNCHANGED boardFrame

AddTask(columnId) ==
    /\ kanban.calls < MaxCalls
    /\ ~kanban.adding
    /\ kanban' = Called(addTask(kanban, columnId), "addTask")
    /\ UNCHANGED boardFrame

AddTaskCreated ==
    /\ kanban.adding
    /\ kanban' = [addTaskCreated(kanban) EXCEPT !.op = "addTask created"]
    /\ UNCHANGED boardFrame

AddTaskFailed ==
    /\ kanban.adding
    /\ kanban' = [addTaskFailed(kanban) EXCEPT !.op = "addTask failed"]
    /\ UNCHANGED boardFrame

DeleteTask(taskId) ==
    /\ kanban.calls < MaxCalls
    /\ kanban' = Called(deleteTask(kanban, taskId), "deleteTask")
    /\ UNCHANGED boardFrame

\* the persist timer fires
Persist ==
    /\ kanban.timer.set
    /\ kanban' = [persist(kanban) EXCEPT !.op = "persist"]
    /\ UNCHANGED boardFrame

NextBoard ==
    \/ \E taskId \in TaskIds(kanban), toColumnId \in Columns, toIndex \in DropIndices :
           MoveTask(taskId, toColumnId, toIndex)
    \/ \E columnId \in Columns, fromIndex \in DropIndices, toIndex \in DropIndices :
           ReorderTask(columnId, fromIndex, toIndex)
    \/ \E columnId \in Columns : AddTask(columnId)
    \/ AddTaskCreated
    \/ AddTaskFailed
    \/ \E taskId \in TaskIds(kanban) : DeleteTask(taskId)
    \/ Persist

SpecBoard == InitBoard /\ [][NextBoard]_vars

\* a timer that is set fires, and a request that was sent settles
SpecBoardFair ==
    SpecBoard /\ WF_vars(Persist) /\ WF_vars(AddTaskCreated \/ AddTaskFailed)

----------------------------------------------------------------------------
(* NoteChatbot (the chat panel over the notes): the messages, the input,    *)
(* isLoading and the chatWithNoteContext request in flight. A text is a     *)
(* sequence of characters.                                                  *)

\* number of sends that are accepted in a run
MaxSends == 2

\* what the user can have typed: nothing, blanks, a word, a word between blanks
Inputs == {<<>>, <<" ">>, <<" ", " ">>, <<"h", "i">>, <<" ", "h", " ", "i", " ">>}

\* String.prototype.trim: the text without its leading and trailing blanks
RECURSIVE TrimStart(_)
TrimStart(text) ==
    IF text # <<>> /\ Head(text) = " " THEN TrimStart(Tail(text)) ELSE text

RECURSIVE TrimEnd(_)
TrimEnd(text) ==
    IF text # <<>> /\ text[Len(text)] = " " THEN TrimEnd(SubSeq(text, 1, Len(text) - 1)) ELSE text

Trim(text) == TrimEnd(TrimStart(text))

\* the answers chatWithNoteContext resolves to
Answers == {<<"y", "e", "s">>, <<>>}

\* the content of the message shown when the call fails
ErrorContent == <<"Sorry, I encountered an error. Please try again.">>

ChatMessage(role, content) == [role |-> role, content |-> content]

\* the component after mounting; `awaiting` says that a chatWithNoteContext
\* call has not settled, `accepted` counts the sends that went through and
\* `op` is the last step (history)
MountedChat ==
    [messages |-> <<>>, input |-> <<>>, isLoading |-> FALSE, awaiting |-> FALSE,
     accepted |-> 0, op |-> "mount"]

\* onChange of the input field
setInput(c, text) == [c EXCEPT !.input = text]

\* a plausible slip: the guard forgets the request in flight
handleSendWhileLoading(c) ==
    IF Trim(c.input) = <<>> THEN c
    ELSE [c EXCEPT !.messages = Append(c.messages, ChatMessage("user", Trim(c.input))),
                   !.input = <<>>, !.isLoading = TRUE, !.awaiting = TRUE]

\* handleSend up to its await
handleSend(c) ==
    IF Trim(c.input) = <<>> \/ c.isLoading THEN c
    ELSE [c EXCEPT !.messages = Append(c.messages, ChatMessage("user", Trim(c.input))),
                   !.input = <<>>, !.isLoading = TRUE, !.awaiting = TRUE]

\* handleSend after chatWithNoteContext resolved, through the finally block
handleSendResolved(c, answer) ==
    [c EXCEPT !.messages = Append(c.messages, ChatMessage("assistant", answer)),
              !.isLoading = FALSE, !.awaiting = FALSE]

\* handleSend after chatWithNoteContext rejected: the catch and the finally block
handleSendRejected(c) ==
    [c EXCEPT !.messages = Append(c.messages, ChatMessage("assistant", ErrorContent)),
              !.isLoading = FALSE, !.awaiting = FALSE]

chatFrame == <<canvasVars, storage, layoutCall, conv, kanban, mount>>

InitChat ==
    /\ IdleCanvas
    /\ storage = Null
    /\ layoutCall = Null
    /\ conv = Null
    /\ kanban = Null
    /\ chat = MountedChat
    /\ mount = Null

\* the input field changes; it has no guard of its own (the field is disabled
\* while isLoading, which the model does not rely on)
SetInput(text) ==
    /\ chat' = [setInput(chat, text) EXCEPT !.op = "setInput"]
    /\ UNCHANGED chatFrame

\* the send button or the Enter key
HandleSend ==
    /\ chat.accepted < MaxSends \/ handleSend(chat) = chat
    /\ LET after == handleSend(chat)
       IN chat' = IF after = chat THEN [chat EXCEPT !.op = "send ignored"]
                  ELSE [after EXCEPT !.op = "send", !.accepted = chat.accepted + 1]
    /\ UNCHANGED chatFrame

Resolved(answer) ==
    /\ chat.awaiting
    /\ chat' = [handleSendResolved(chat, answer) EXCEPT !.op = "resolved"]
    /\ UNCHANGED chatFrame

Rejected ==
    /\ chat.awaiting
    /\ chat' = [handleSendRejected(chat) EXCEPT !.op = "rejected"]
    /\ UNCHANGED chatFrame

NextChat ==
    \/ \E text \in Inputs : SetInput(text)
    \/ HandleSend
    \/ \E answer \in Answers : Resolved(answer)
    \/ Rejected

SpecChat == InitChat /\ [][NextChat]_vars

\* the call settles
SpecChatFair == SpecChat /\ WF_vars((\E answer \in Answers : Resolved(answer)) \/ Rejected)

----------------------------------------------------------------------------
(* CanvasBoard (src/components/CanvasBoard.tsx): the effect that creates    *)
(* and destroys the CanvasEngine, and the handlers that call it. `mount`    *)
(* holds the props, the `engine` state, the engineInstance of the effect's  *)
(* closure, the engines constructed so far and, as history, the engine      *)
(* calls of the last step. An engine is its place in `engines`; 0 is null.  *)

\* number of changes of the canvasId prop in a run
MaxCanvasChanges == 2

\* the values of the canvasId prop
CanvasIds == {"note-a", "note-b", "note-c"}

\* the engine reference of a state that holds none
NoEngine == 0

\* the handlers of the toolbars and of the ref, each with the engine methods it calls
Handlers ==
    {[name |-> "selectTool", methods |-> <<"setTool">>],
     [name |-> "changeColor", methods |-> <<"strokeFill">>],
     [name |-> "changeStrokeWidth", methods |-> <<"setStrokeWidth">>],
     [name |-> "changeStrokeStyle", methods |-> <<"setStrokeStyle">>],
     [name |-> "changeRoughStyle", methods |-> <<"setRoughStyle">>],
     [name |-> "changeFontSize", methods |-> <<"fontSize">>],
     [name |-> "zoomIn", methods |-> <<"zoomIn", "getZoomInfo">>],
     [name |-> "zoomOut", methods |-> <<"zoomOut", "getZoomInfo">>],
     [name |-> "resetZoom", methods |-> <<"resetZoom", "getZoomInfo">>],
     [name |-> "clearCanvas", methods |-> <<"clear">>],
     [name |-> "addShapes", methods |-> <<"addShapes">>]}

\* the component as it renders first: no engine yet
Rendered(canvasId, elements, readOnly) ==
    [mounted |-> TRUE, canvasId |-> canvasId, elements |-> elements, readOnly |-> readOnly,
     engine |-> NoEngine, engineInstance |-> NoEngine, observing |-> FALSE,
     engines |-> <<>>, calls |-> <<>>, changes |-> 0, op |-> "mount"]

\* a call of a method of an engine; `destroyed` says what the engine was when
\* it was called (history), and destroy() leaves it destroyed
EngineCall(b, id, method) ==
    [b EXCEPT !.calls = Append(b.calls, [engine |-> id, method |-> method,
                                         destroyed |-> b.engines[id].destroyed]),
              !.engines[id].destroyed = b.engines[id].destroyed \/ method = "destroy"]

RECURSIVE EngineCalls(_, _, _)
EngineCalls(b, id, methods) ==
    IF methods = <<>> THEN b
    ELSE EngineCalls(EngineCall(b, id, Head(methods)), id, Tail(methods))

\* the body of the effect: the engine of the `engine` state if there is one,
\* else a new one, which becomes the state; the elements are loaded, the size
\* is set, the observer and the listener are attached
effect(b) ==
    LET fresh == b.engine = NoEngine
        id == IF fresh THEN Len(b.engines) + 1 ELSE b.engine
        made == IF fresh
                THEN [b EXCEPT !.engines = Append(b.engines, [canvasId |-> b.canvasId,
                                                              destroyed |-> FALSE]),
                               !.engine = id]
                ELSE b
        loaded == IF b.elements THEN EngineCall(made, id, "loadElements") ELSE made
    IN [EngineCall(loaded, id, "resize") EXCEPT !.engineInstance = id, !.observing = TRUE]

\* the cleanup of the effect: the observer and the listener are detached, the
\* engine of the effect's closure is destroyed
cleanup(b) ==
    [EngineCall(b, b.engineInstance, "destroy") EXCEPT !.observing = FALSE]

\* updateSize, called by the ResizeObserver and the resize listener
updateSize(b) == EngineCall(b, b.engineInstance, "resize")

\* a handler: its engine calls, if the `engine` state holds an engine (and,
\* for clearCanvas, the board is not read-only)
handler(b, h) ==
    IF b.engine = NoEngine \/ (h.name = "clearCanvas" /\ b.readOnly) THEN b
    ELSE EngineCalls(b, b.engine, h.methods)

\* the next step starts with no engine call made
Step(b, op) == [b EXCEPT !.calls = <<>>, !.op = op]

mountFrame == <<canvasVars, storage, layoutCall, conv, kanban, chat>>

\* the component was mounted and its effect has run
InitMount ==
    /\ IdleCanvas
    /\ storage = Null
    /\ layoutCall = Null
    /\ conv = Null
    /\ kanban = Null
    /\ chat = Null
    /\ mount \in {effect(Rendered(canvasId, elements, readOnly)) :
                     canvasId \in CanvasIds, elements \in BOOLEAN, readOnly \in BOOLEAN}

\* the canvasId prop changes: the cleanup of the effect, then the effect
ChangeCanvasId(canvasId) ==
    /\ mount.mounted
    /\ mount.changes < MaxCanvasChanges
    /\ canvasId # mount.canvasId
    /\ mount' = effect([cleanup(Step(mount, "canvasId")) EXCEPT
                            !.canvasId = canvasId, !.changes = mount.changes + 1])
    /\ UNCHANGED mountFrame

Handle(h) ==
    /\ mount.mounted
    /\ mount' = handler(Step(mount, h.name), h)
    /\ UNCHANGED mountFrame

ResizeObserved ==
    /\ mount.mounted
    /\ mount.observing
    /\ mount' = updateSize(Step(mount, "updateSize"))
    /\ UNCHANGED mountFrame

Unmount ==
    /\ mount.mounted
    /\ mount' = [cleanup(Step(mount, "unmount")) EXCEPT !.mounted = FALSE]
    /\ UNCHANGED mountFrame

NextMount ==
    \/ \E canvasId \in CanvasIds : ChangeCanvasId(canvasId)
    \/ \E h \in Handlers : Handle(h)
    \/ ResizeObserved
    \/ Unmount

SpecMount == InitMount /\ [][NextMount]_vars

----------------------------------------------------------------------------
(* Properties of the pure methods (checked under SpecQuery) *)

Min2(a, b) == IF a <= b THEN a ELSE b

Abs(a) == IF a < 0 THEN 0 - a ELSE a

\* C10: for every rectangle or diamond with origin (x, y) and signed width w
\* and height h, getShapeBounds returns {x: min(x, x+w), y: min(y, y+h),
\* width: |w|, height: |h|}: non-negative extents and the true top-left corner;
\* {x:100, y:100, width:-50, height:-30} gives {x:50, y:70, width:50, height:30}.
RectBoundsNormalized ==
    (query.method = "getShapeBounds" /\ query.done
        /\ query.shape.type \in {"rectangle", "diamond"}) =>
        LET sh == query.shape
            r == query.result
        IN /\ r = [x |-> Min2(sh.x, sh.x + sh.width), y |-> Min2(sh.y, sh.y + sh.height),
                   width |-> Abs(sh.width), height |-> Abs(sh.height)]
           /\ r.width >= 0
           /\ r.height >= 0
           /\ (sh.x = 100 /\ sh.y = 100 /\ sh.width = -50 /\ sh.height = -30)
                  => r = [x |-> 50, y |-> 70, width |-> 50, height |-> 30]

\* C10 happens: the bounds of the rectangle {100, 100, -50, -30} were computed
RectBoundsNormalizedWitness ==
    /\ query.method = "getShapeBounds"
    /\ query.done
    /\ query.shape = Rect("q", "rectangle", 100, 100, -50, -30)
    /\ query.result = [x |-> 50, y |-> 70, width |-> 50, height |-> 30]

\* C11: for every shape of every variant and every value of its numeric
\* fields, getShapeBounds returns a box with width >= 0 and height >= 0.
BoundsNonNegative ==
    (query.method = "getShapeBounds" /\ query.done) =>
        /\ Ge(query.result.width, 0)
        /\ Ge(query.result.height, 0)

\* the least and the greatest of a non-empty finite set of integers
SetMin(S) == CHOOSE m \in S : \A v \in S : m <= v

SetMax(S) == CHOOSE m \in S : \A v \in S : m >= v

\* C12: for a free-draw shape getShapeBounds returns {0, 0, 0, 0} when the
\* point list is empty and otherwise {x: min x, y: min y, width: max x - min x,
\* height: max y - min y} over its points; the points (0,0), (10,5), (-3,8)
\* give {x: -3, y: 0, width: 13, height: 8}.
FreeDrawBoundsAreExtremes ==
    (query.method = "getShapeBounds" /\ query.done /\ query.shape.type = "free-draw") =>
        LET pts == query.shape.points
            xs == {pts[i].x : i \in DOMAIN pts}
            ys == {pts[i].y : i \in DOMAIN pts}
            r == query.result
        IN /\ pts = <<>> => r = [x |-> 0, y |-> 0, width |-> 0, height |-> 0]
           /\ pts # <<>> =>
                  r = [x |-> SetMin(xs), y |-> SetMin(ys),
                       width |-> SetMax(xs) - SetMin(xs), height |-> SetMax(ys) - SetMin(ys)]
           /\ pts = <<Pt(0, 0), Pt(10, 5), Pt(-3, 8)>>
                  => r = [x |-> -3, y |-> 0, width |-> 13, height |-> 8]

\* C12 happens: the bounds of the stroke (0,0), (10,5), (-3,8) were computed
FreeDrawBoundsAreExtremesWitness ==
    /\ query.method = "getShapeBounds"
    /\ query.done
    /\ query.shape.type = "free-draw"
    /\ query.shape.points = <<Pt(0, 0), Pt(10, 5), Pt(-3, 8)>>
    /\ query.result = [x |-> -3, y |-> 0, width |-> 13, height |-> 8]

\* the point (px, py) is less than tol away from the nearest point of the
\* segment a-b: from an end point when the foot of the perpendicular falls
\* outside the segment, from the carrying line (cross product over length)
\* otherwise
NearSegment(px, py, a, b, tol) ==
    LET abx == b.x - a.x
        aby == b.y - a.y
        apx == px - a.x
        apy == py - a.y
        bpx == px - b.x
        bpy == py - b.y
        l2 == abx * abx + aby * aby
        dot == apx * abx + apy * aby
        cross == abx * apy - aby * apx
    IN IF l2 = 0 \/ dot <= 0 THEN apx * apx + apy * apy < tol * tol
       ELSE IF dot >= l2 THEN bpx * bpx + bpy * bpy < tol * tol
       ELSE cross * cross < tol * tol * l2

Max2(a, b) == IF a >= b THEN a ELSE b

\* C13: isPointInShape(x, y, shape) uses a tolerance of 10 units for stroke
\* shapes and exact containment for the others: a line or arrow is hit iff
\* (x, y) is within the tolerance of the segment start-end; a free-draw iff
\* (x, y) is within the tolerance of at least one segment between consecutive
\* points; a rectangle, diamond or text iff (x, y) lies inside
\* getShapeBounds(shape), so a rectangle with negative extents is hit over the
\* area it covers; an ellipse iff (x, y) lies inside the ellipse with the
\* shape's center and radii.
PointInShapeByVariant ==
    (query.method = "isPointInShape" /\ query.done) =>
        LET sh == query.shape
            px == query.x
            py == query.y
            hit == query.result
        IN /\ sh.type \in {"line", "arrow"} =>
                  (hit <=> NearSegment(px, py, Pt(sh.x, sh.y), Pt(sh.toX, sh.toY), 10))
           /\ sh.type = "free-draw" =>
                  (hit <=> \E i \in 1..(Len(sh.points) - 1) :
                              NearSegment(px, py, sh.points[i], sh.points[i + 1], 10))
           /\ sh.type \in {"rectangle", "diamond", "text"} =>
                  LET b == getShapeBounds(sh)
                  IN hit <=> /\ b.x <= px /\ px <= b.x + b.width
                             /\ b.y <= py /\ py <= b.y + b.height
           /\ sh.type \in {"rectangle", "diamond"} =>
                  (hit <=> /\ Min2(sh.x, sh.x + sh.width) <= px
                           /\ px <= Max2(sh.x, sh.x + sh.width)
                           /\ Min2(sh.y, sh.y + sh.height) <= py
                           /\ py <= Max2(sh.y, sh.y + sh.height))
           /\ (sh.type = "ellipse" /\ sh.radX # 0 /\ sh.radY # 0) =>
                  LET dx == px - sh.x
                      dy == py - sh.y
                  IN hit <=> (dx * sh.radY) * (dx * sh.radY) + (dy * sh.radX) * (dy * sh.radX)
                                 <= (sh.radX * sh.radY) * (sh.radX * sh.radY)

\* C13 happens: a rectangle stored with negative extents was hit inside the
\* area it covers
PointInShapeByVariantWitness ==
    /\ query.method = "isPointInShape"
    /\ query.done
    /\ query.shape = Rect("q", "rectangle", 100, 100, -50, -50)
    /\ query.x = 60
    /\ query.y = 59
    /\ query.result = TRUE

\* the corner of a bounding box that a handle names
Corner(h, b) ==
    IF h = "tl" THEN Pt(b.x, b.y)
    ELSE IF h = "tr" THEN Pt(b.x + b.width, b.y)
    ELSE IF h = "bl" THEN Pt(b.x, b.y + b.height)
    ELSE Pt(b.x + b.width, b.y + b.height)

\* (px, py) is within the tolerance of the point c: less than 10 units away
WithinTolerance(px, py, c) ==
    (px - c.x) * (px - c.x) + (py - c.y) * (py - c.y) < HandleThreshold * HandleThreshold

\* C6: getResizeHandleAtPoint(x, y, bounds) returns a handle only if (x, y) is
\* within the 10-unit tolerance (a distance below 10) of that handle's corner of
\* bounds, and returns none only if (x, y) is within the tolerance of none of
\* the four corners; for bounds {0, 0, 100, 100} it returns tl at (0, 0), br at
\* (100, 100) and none at (50, 50).
HandleOnlyNearItsCorner ==
    (query.method = "getResizeHandleAtPoint" /\ query.done) =>
        LET b == query.bounds
            r == query.result
        IN /\ r \in Handles \cup {NoHandle}
           /\ r \in Handles => WithinTolerance(query.x, query.y, Corner(r, b))
           /\ r = NoHandle => \A h \in Handles : ~WithinTolerance(query.x, query.y, Corner(h, b))
           /\ b = Bounds(0, 0, 100, 100) =>
                  /\ (query.x = 0 /\ query.y = 0) => r = "tl"
                  /\ (query.x = 100 /\ query.y = 100) => r = "br"
                  /\ (query.x = 50 /\ query.y = 50) => r = NoHandle

\* C6 happens: the handle at (100, 100) of the box {0, 0, 100, 100} was asked for
HandleOnlyNearItsCornerWitness ==
    /\ query.method = "getResizeHandleAtPoint"
    /\ query.done
    /\ query.bounds = Bounds(0, 0, 100, 100)
    /\ query.x = 100
    /\ query.y = 100
    /\ query.result = "br"

----------------------------------------------------------------------------
(* Properties of the gestures (checked under Spec) *)

\* C1: after startDragging(sx, sy) on a selected shape other than a free-draw,
\* with origin (x0, y0), and then any number of updateDragging calls of which
\* the last is updateDragging(x, y), the shape's origin is (x0 + x - sx,
\* y0 + y - sy), whatever the intermediate calls; updateDragging(sx, sy) leaves
\* the shape at (x0, y0).
DragPathIndependent ==
    (dragTrace.live /\ dragTrace.calls >= 1 /\ dragTrace.start.type # "free-draw") =>
        LET s == shapes[dragTrace.ref]
        IN /\ s.x = dragTrace.start.x + dragTrace.x - dragTrace.sx
           /\ s.y = dragTrace.start.y + dragTrace.y - dragTrace.sy
           /\ (dragTrace.x = dragTrace.sx /\ dragTrace.y = dragTrace.sy)
                  => (s.x = dragTrace.start.x /\ s.y = dragTrace.start.y)

\* C1 happens: a drag with at least two updateDragging calls has moved a shape
DragPathIndependentWitness ==
    /\ dragTrace.live
    /\ dragTrace.calls = 2
    /\ dragTrace.start.type = "rectangle"
    /\ lastCall.op = "updateDragging"
    /\ shapes[dragTrace.ref].x # dragTrace.start.x

\* C2: with no selection or no active gesture, updateDragging, stopDragging,
\* updateResizing and stopResizing raise no error and leave every shape
\* unchanged; with no selected shape, startDragging and startResizing raise no
\* error, leave every shape unchanged and start no gesture.
NoOpSafety ==
    [][/\ (/\ lastCall'.op \in {"updateDragging", "stopDragging", "updateResizing", "stopResizing"}
           /\ (selectedShape = NullRef \/ (~isDragging /\ ~isResizing)))
          => (shapes' = shapes /\ ~threw')
       /\ (/\ lastCall'.op \in {"startDragging", "startResizing"}
           /\ selectedShape = NullRef)
          => /\ shapes' = shapes
             /\ ~threw'
             /\ isDragging' = isDragging
             /\ isResizing' = isResizing
             /\ initialShapeState' = initialShapeState]_vars

\* C2 happens: updateDragging was called during a drag whose shape was deselected
NoOpSafetyWitness ==
    /\ lastCall.op = "updateDragging"
    /\ selectedShape = NullRef
    /\ isDragging
    /\ initialShapeState # Null
    /\ ~threw

\* t is s moved as a whole: the same variant, every geometry point shifted by
\* one delta, the extents kept
IsTranslationOf(t, s) ==
    /\ t.type = s.type
    /\ s.type = "free-draw" =>
          /\ Len(t.points) = Len(s.points)
          /\ \A i \in 1..Len(s.points) :
                /\ t.points[i].x - s.points[i].x = t.points[1].x - s.points[1].x
                /\ t.points[i].y - s.points[i].y = t.points[1].y - s.points[1].y
    /\ s.type \in {"line", "arrow"} =>
          /\ ~IsNaN(t.toX) /\ ~IsNaN(t.toY)
          /\ t.toX - t.x = s.toX - s.x
          /\ t.toY - t.y = s.toY - s.y
    /\ s.type \in {"rectangle", "diamond", "text"} =>
          (t.width = s.width /\ t.height = s.height)
    /\ s.type = "ellipse" => (t.radX = s.radX /\ t.radY = s.radY)

\* C3: every updateDragging call during an active drag moves the selected
\* shape as a whole: for a line or arrow the end point moves with the start
\* point, for a free-draw every point is shifted by the same delta and the
\* number and order of the points is kept, for the other variants the width,
\* height and radii are unchanged.
DragIsRigidTranslation ==
    [][(lastCall'.op = "updateDragging" /\ isDragging /\ selectedShape # NullRef)
          => IsTranslationOf(shapes'[selectedShape], shapes[selectedShape])]_vars

\* C4: during a resize gesture started at (sx, sy) with the handle br on a
\* rectangle or diamond, after updateResizing(x, y) the shape has the width and
\* height it had at the start of the gesture plus (x - sx) and (y - sy); with
\* another handle or another variant, updateResizing leaves the shape unchanged.
ResizeFollowsPointer ==
    /\ [](( /\ lastCall.op = "updateResizing"
            /\ resizeTrace.live
            /\ resizeTrace.handle = "br"
            /\ resizeHandle = "br"
            /\ isResizing
            /\ resizeTrace.start.type \in {"rectangle", "diamond"}
            /\ selectedShape = resizeTrace.ref)
          => /\ shapes[selectedShape].width = resizeTrace.start.width + resizeTrace.x - resizeTrace.sx
             /\ shapes[selectedShape].height = resizeTrace.start.height + resizeTrace.y - resizeTrace.sy)
    /\ [][( /\ lastCall'.op = "updateResizing"
            /\ selectedShape # NullRef
            /\ (resizeHandle # "br" \/ shapes[selectedShape].type \notin {"rectangle", "diamond"}))
          => shapes' = shapes]_vars

\* C5: from a state with a selected shape and no active gesture, after
\* startResizing(x, y) isResizing is true exactly if getResizeHandleAtPoint(x, y,
\* getShapeBounds(selected)) is a handle, and then the pointer position and a
\* copy of the selected shape are recorded; otherwise isResizing stays false and
\* no baseline is recorded.
StartResizingOnlyOnHandle ==
    [][(/\ lastCall'.op = "startResizing"
        /\ selectedShape # NullRef
        /\ ~isDragging
        /\ ~isResizing) =>
           LET px == lastCall'.x
               py == lastCall'.y
               h == getResizeHandleAtPoint(px, py, getShapeBounds(shapes[selectedShape]))
           IN /\ isResizing' <=> h \in Handles
              /\ h \in Handles => /\ dragStart' = Pt(px, py)
                                  /\ initialShapeState' = shapes[selectedShape]
                                  /\ resizeHandle' = h
              /\ h \notin Handles => (~isResizing' /\ initialShapeState' = Null)]_vars

\* C5 happens: startResizing hit a handle with no gesture active before
StartResizingOnlyOnHandleWitness ==
    /\ lastCall.op = "startResizing"
    /\ isResizing
    /\ ~isDragging
    /\ resizeHandle = "br"
    /\ selectedShape # NullRef
    /\ initialShapeState = shapes[selectedShape]

\* C7: calling stopDragging twice gives the state of calling it once, with
\* isDragging false and the baseline released; calling stopResizing twice gives
\* the state of calling it once, with isResizing false, the baseline released
\* and the handle cleared; neither touches a shape.
StopsIdempotent ==
    LET d == stopDragging(State)
        r == stopResizing(State)
    IN /\ stopDragging(d) = d
       /\ ~d.isDragging /\ d.initialShapeState = Null /\ d.shapes = shapes
       /\ stopResizing(r) = r
       /\ ~r.isResizing /\ r.initialShapeState = Null /\ r.resizeHandle = NoHandle
       /\ r.shapes = shapes
       /\ lastCall.op = "stopDragging" => (d = State /\ ~isDragging /\ initialShapeState = Null)
       /\ lastCall.op = "stopResizing" =>
             (r = State /\ ~isResizing /\ initialShapeState = Null /\ resizeHandle = NoHandle)

\* C7 happens: stopDragging ended a drag that had moved the selected shape
StopsIdempotentWitness ==
    /\ lastCall.op = "stopDragging"
    /\ ~isDragging
    /\ selectedShape # NullRef
    /\ gestures >= 1
    /\ shapes[selectedShape] \notin FirstShapes \cup SecondShapes

\* C8: isDragging and isResizing are never both true.
GesturesExclusive == ~(isDragging /\ isResizing)

\* C9: after setSelectedShape(null), also in the middle of a gesture,
\* getSelectedShape returns null, and until setSelectedShape is called again no
\* call modifies a shape.
DeselectReleasesShape ==
    [][/\ (lastCall'.op = "setSelectedShape" /\ lastCall'.ref = NullRef)
              => getSelectedShape(State)' = NullRef
       /\ selectedShape = NullRef => shapes' = shapes
       /\ (selectedShape = NullRef /\ lastCall'.op # "setSelectedShape")
              => selectedShape' = NullRef]_vars

\* C9 happens: updateResizing was called during a resize whose shape was deselected
DeselectReleasesShapeWitness ==
    /\ lastCall.op = "updateResizing"
    /\ selectedShape = NullRef
    /\ isResizing
    /\ resizeHandle = "br"
    /\ initialShapeState # Null

\* C14: no controller operation changes the type tag or the id of a shape,
\* changes any field of a shape other than the one selected when it is called,
\* or changes the order of the scene's shape list; setSelectedShape modifies
\* no shape.
ControllerFrame ==
    [][/\ Len(shapes') = Len(shapes)
       /\ \A i \in DOMAIN shapes :
              /\ shapes'[i].type = shapes[i].type
              /\ shapes'[i].id = shapes[i].id
              /\ i # selectedShape => shapes'[i] = shapes[i]
       /\ lastCall'.op = "setSelectedShape" => shapes' = shapes]_vars

\* C14 happens: a drag has moved the selected shape, and the other shape of the
\* scene is as it was drawn
ControllerFrameWitness ==
    /\ dragTrace.live
    /\ dragTrace.calls > 0
    /\ lastCall.op = "updateDragging"
    /\ selectedShape = 1
    /\ dragTrace.ref = 1
    /\ shapes[1] # dragTrace.start
    /\ shapes[1].id = "s1"
    /\ shapes[2] \in SecondShapes

IsJsonSnapshotOf(b, s) ==
    /\ DOMAIN b = DOMAIN s
    /\ \A f \in DOMAIN s :
          IF f \in {"x", "y", "width", "height", "radX", "radY", "toX", "toY", "strokeWidth"}
          THEN b[f] = (IF s[f] = NaN THEN 0 ELSE s[f])
          ELSE IF f = "points"
          THEN /\ Len(b[f]) = Len(s[f])
               /\ \A i \in 1..Len(s[f]) :
                      /\ b[f][i].x = (IF s[f][i].x = NaN THEN 0 ELSE s[f][i].x)
                      /\ b[f][i].y = (IF s[f][i].y = NaN THEN 0 ELSE s[f][i].y)
          ELSE b[f] = s[f]

\* no numeric field of the shape is NaN
AllNumbers(s) ==
    /\ \A f \in DOMAIN s \cap {"x", "y", "width", "height", "radX", "radY", "toX", "toY"} :
           s[f] # NaN
    /\ "points" \in DOMAIN s => \A i \in 1..Len(s.points) : s.points[i].x # NaN /\ s.points[i].y # NaN

BaselineOfSelectedShape ==
    (/\ isDragging \/ isResizing
     /\ selectedShape # NullRef
     /\ initialShapeState # Null)
        => initialShapeState.id = shapes[selectedShape].id

\* C24 as stated: in every reachable state, isDragging implies that the
\* baseline is present, and isResizing implies that the baseline and the
\* active resize handle are present.
ActiveGestureCanTakeEffect ==
    /\ isDragging => initialShapeState # Null
    /\ isResizing => (initialShapeState # Null /\ resizeHandle # NoHandle)

\* C25 as stated: for every rectangle or diamond whose br handle was grabbed,
\* of any signed width and height, after every updateResizing(x, y) of the
\* gesture started at (sx, sy) the top-left corner of the shape's bounds is the
\* top-left corner of the baseline's bounds, and the bottom-right corner of
\* the bounds is the baseline's bottom-right corner moved by (x - sx, y - sy).
BottomRightResizeKeepsTopLeft ==
    (/\ lastCall.op = "updateResizing"
     /\ isResizing
     /\ ~isDragging
     /\ resizeHandle = "br"
     /\ resizeTrace.live
     /\ resizeTrace.handle = "br"
     /\ resizeTrace.calls >= 1
     /\ selectedShape = resizeTrace.ref
     /\ resizeTrace.start.type \in {"rectangle", "diamond"}
     /\ initialShapeState = resizeTrace.start
     /\ dragStart = Pt(resizeTrace.sx, resizeTrace.sy)) =>
        LET now == getShapeBounds(shapes[selectedShape])
            base == getShapeBounds(initialShapeState)
        IN /\ now.x = base.x
           /\ now.y = base.y
           /\ now.x + now.width = base.x + base.width + resizeTrace.x - resizeTrace.sx
           /\ now.y + now.height = base.y + base.height + resizeTrace.y - resizeTrace.sy

----------------------------------------------------------------------------
(* Properties of the layout preferences (checked under SpecLayout) *)

\* the value of the member `key` of the object text `text`
Member(text, key) ==
    LET m == text.members
    IN m[CHOOSE i \in DOMAIN m : m[i].key = key].tok

PreferenceFields == {"layoutMode", "sidebarWidth", "showGridLines", "snapToGrid"}

Mutators ==
    {"setLayoutMode", "setSidebarWidth", "toggleGridLines", "toggleSnapToGrid", "resetToDefaults"}

\* the field a mutator is for
OwnField(op) ==
    IF op = "setLayoutMode" THEN "layoutMode"
    ELSE IF op = "setSidebarWidth" THEN "sidebarWidth"
    ELSE IF op = "toggleGridLines" THEN "showGridLines"
    ELSE "snapToGrid"

PersistedBefore(field) ==
    LET before == layoutCall.before
    IN IF before # Null /\ before.text = "object" THEN Member(before, field).v
       ELSE IF field = "layoutMode" THEN "topbar"
       ELSE IF field = "sidebarWidth" THEN 280
       ELSE FALSE

ReadFallsBackToDefault ==
    (layoutCall # Null /\ layoutCall.op = "getLocalPreferences") =>
        /\ ~layoutCall.raised
        /\ storage = layoutCall.before
        /\ (storage = Null \/ storage.text # "object") =>
               layoutCall.value = [layoutMode |-> "topbar", sidebarWidth |-> 280,
                                   showGridLines |-> FALSE, snapToGrid |-> FALSE]

\* C17 happens: the stored text was not JSON, and the default was returned
ReadFallsBackToDefaultWitness ==
    /\ layoutCall # Null
    /\ layoutCall.op = "getLocalPreferences"
    /\ layoutCall.before = MalformedText
    /\ storage = MalformedText
    /\ ~layoutCall.raised
    /\ layoutCall.value.sidebarWidth = 280

----------------------------------------------------------------------------
(* Properties of the diagram conversion (checked under SpecDiagram and      *)
(* SpecDiagramFair)                                                         *)

\* the number of shapes the first n nodes, and the first n connections, stand for
RECURSIVE NodeShapes(_, _)
NodeShapes(nodes, n) ==
    IF n = 0 THEN 0
    ELSE NodeShapes(nodes, n - 1) + (IF nodes[n].type = "text" THEN 1 ELSE 2)

RECURSIVE ConnectionShapes(_, _)
ConnectionShapes(conns, n) ==
    IF n = 0 THEN 0
    ELSE ConnectionShapes(conns, n - 1) + (IF conns[n].label # "" THEN 2 ELSE 1)

\* the box a node was laid out in, moved by the offset of the conversion
PlacedBox(run, id) ==
    LET i == CHOOSE j \in DOMAIN run.spec.nodes : run.spec.nodes[j].id = id
        node == run.spec.nodes[i]
    IN [type |-> node.type,
        x |-> run.placed[i].finalX + 100, y |-> run.placed[i].finalY + 100,
        width |-> Max2(node.width, 80), height |-> Max2(node.height, 50)]

\* the connection point of a node: bottom centre (as a source) or top centre
\* (as a target) of a rectangle or diamond, the point half the extents in from
\* the origin of an ellipse, the origin of a text
ConnectionPointOf(box, isSource) ==
    IF box.type \in {"rectangle", "diamond"}
    THEN Pt(box.x + box.width \div 2, IF isSource THEN box.y + box.height ELSE box.y)
    ELSE IF box.type = "ellipse"
    THEN Pt(box.x + box.width \div 2, box.y + box.height \div 2)
    ELSE Pt(box.x, box.y)

Apart(x, y, w, h, region) ==
    \/ region.x + region.width + 200 <= x
    \/ x + w + 200 <= region.x
    \/ region.y + region.height + 150 <= y
    \/ y + h + 150 <= region.y

\* the node of a layout record `p`, the i-th node of the run
LaidOut(run, i, p) ==
    LET node == run.spec.nodes[i]
    IN /\ p.attempts <= 5
       /\ (\A k \in DOMAIN p.regions :
               Apart(node.x, node.y, Max2(node.width, 80), Max2(node.height, 50), p.regions[k]))
              => (p.finalX = node.x /\ p.finalY = node.y /\ p.moves = <<>>)
       /\ Len(p.moves) <= 5
       /\ \A k \in DOMAIN p.moves : p.moves[k] = (IF k <= 3 THEN "right" ELSE "down")

RECURSIVE Count(_, _)
Count(moves, m) ==
    IF moves = <<>> THEN 0
    ELSE (IF Head(moves) = m THEN 1 ELSE 0) + Count(Tail(moves), m)

\* C20 as stated: a node's final layout position is its requested position
\* plus (200 r, 150 d) for some r in 0..3 and d in 0..2.
DisplacedBySpacing ==
    \A i \in DOMAIN conv.placed :
        LET p == conv.placed[i]
        IN \E r \in 0..3, d \in 0..2 :
               /\ p.finalX = p.x + 200 * r
               /\ p.finalY = p.y + 150 * d

\* C20, amended: each rightward displacement moves the node by exactly 250
\* units in x and each downward one by exactly 200 units in y, so its final
\* layout position is its requested position plus (250 r, 200 d), r in 0..3
\* the number of its moves right and d in 0..2 the number of its moves down.
DisplacedBySpacingPlusMargin ==
    /\ conv.pc = "while" =>
           LET node == conv.spec.nodes[conv.index]
           IN /\ conv.finalX = node.x + 250 * Count(conv.moves, "right")
              /\ conv.finalY = node.y + 200 * Count(conv.moves, "down")
    /\ \A i \in DOMAIN conv.placed :
           LET p == conv.placed[i]
               r == Count(p.moves, "right")
               d == Count(p.moves, "down")
           IN /\ r \in 0..3
              /\ d \in 0..2
              /\ p.finalX = p.x + 250 * r
              /\ p.finalY = p.y + 200 * d

\* C20 happens: a node requested at (0, 0) was moved right three times and down
\* twice, to (750, 400)
DisplacedBySpacingPlusMarginWitness ==
    /\ Len(conv.placed) = 2
    /\ conv.placed[2].x = 0
    /\ conv.placed[2].y = 0
    /\ Count(conv.placed[2].moves, "right") = 3
    /\ Count(conv.placed[2].moves, "down") = 2
    /\ conv.placed[2].finalX = 750
    /\ conv.placed[2].finalY = 400

\* C21 as stated: two nodes requested at identical coordinates, of any widths
\* and heights, are laid out in rectangles that, each expanded by the 200 x 150
\* margin, do not overlap.
SameCoordinatesKeptApart ==
    (/\ Len(conv.placed) = 2
     /\ conv.placed[1].x = conv.placed[2].x
     /\ conv.placed[1].y = conv.placed[2].y) =>
        LET second == conv.occupiedRegions[2]
        IN Apart(second.x, second.y, second.width, second.height, conv.occupiedRegions[1])

\* C26 as stated: for every rectangle, diamond or ellipse node of a converted
\* spec, getShapeBounds of the node's primary shape is the rectangle the
\* layout pass reserved for the node, moved by the offset, and the node's label
\* is at the horizontal centre of that bounding box.
ShapesFillReservedBox ==
    conv.pc = "done" =>
        \A i \in DOMAIN conv.spec.nodes :
            LET node == conv.spec.nodes[i]
                at == NodeShapes(conv.spec.nodes, i - 1) + 1
                box == getShapeBounds(conv.shapes[at])
                reserved == conv.occupiedRegions[i]
            IN node.type \in {"rectangle", "diamond", "ellipse"} =>
                   /\ box.x = reserved.x + 100
                   /\ box.y = reserved.y + 100
                   /\ box.width = reserved.width
                   /\ box.height = reserved.height
                   /\ 2 * conv.shapes[at + 1].x = 2 * box.x + box.width

----------------------------------------------------------------------------
(* Properties of the kanban board (checked under SpecBoard and             *)
(* SpecBoardFair)                                                          *)

\* C27 as stated: with a board loaded, once no further moveTask or
\* reorderTask call occurs, the column and position of every task changed by
\* any of those calls have been passed to saveTaskPositions, so the saved
\* positions eventually equal the in-memory ones.
NoPositionChangeLost ==
    <>[](\A i \in DOMAIN kanban.tasks :
            LET t == kanban.tasks[i]
            IN t.id \in kanban.changed =>
                   /\ t.id \in DOMAIN kanban.saved
                   /\ kanban.saved[t.id].columnId = t.columnId
                   /\ kanban.saved[t.id].position = t.position)

\* C28 as stated: after any sequence of successful addTask, deleteTask,
\* moveTask and reorderTask calls on a loaded board, no two tasks of the same
\* column have the same position.
PositionsUnambiguous ==
    ~kanban.adding =>
        \A i, j \in DOMAIN kanban.tasks :
            (/\ kanban.tasks[i].columnId = kanban.tasks[j].columnId
             /\ kanban.tasks[i].position = kanban.tasks[j].position) => i = j

----------------------------------------------------------------------------
(* Properties of the note chatbot (checked under SpecChatFair)             *)

\* the text has a character that is no blank
HasWord(text) == \E i \in DOMAIN text : text[i] # " "

\* the messages are user, assistant, user, assistant, ...
Alternates(messages) ==
    \A i \in DOMAIN messages :
        messages[i].role = (IF i % 2 = 1 THEN "user" ELSE "assistant")

\* C29: a send with empty or whitespace-only input, or while a request is in
\* flight, is ignored; every accepted send appends exactly one user message
\* and, when the AI call settles, exactly one assistant message (the answer on
\* success, the fixed apology text on failure), after which isLoading is
\* false; so the messages always alternate user, assistant, and isLoading
\* returns to false after every accepted send.
ChatProtocol ==
    /\ [][/\ (chat'.op \in {"send", "send ignored"} /\ (~HasWord(chat.input) \/ chat.isLoading))
                 => /\ chat'.op = "send ignored"
                    /\ chat'.messages = chat.messages
                    /\ chat'.isLoading = chat.isLoading
                    /\ chat'.awaiting = chat.awaiting
          /\ (chat'.op \in {"send", "send ignored"} /\ HasWord(chat.input) /\ ~chat.isLoading)
                 => /\ chat'.op = "send"
                    /\ Len(chat'.messages) = Len(chat.messages) + 1
                    /\ SubSeq(chat'.messages, 1, Len(chat.messages)) = chat.messages
                    /\ chat'.messages[Len(chat'.messages)].role = "user"
                    /\ chat'.isLoading
          /\ chat'.op \in {"resolved", "rejected"}
                 => /\ chat.isLoading
                    /\ Len(chat'.messages) = Len(chat.messages) + 1
                    /\ SubSeq(chat'.messages, 1, Len(chat.messages)) = chat.messages
                    /\ chat'.messages[Len(chat'.messages)].role = "assistant"
                    /\ chat'.op = "resolved"
                           => chat'.messages[Len(chat'.messages)].content \in Answers
                    /\ chat'.op = "rejected"
                           => chat'.messages[Len(chat'.messages)].content =
                                  <<"Sorry, I encountered an error. Please try again.">>
                    /\ ~chat'.isLoading
          /\ chat'.op = "setInput" => chat'.messages = chat.messages]_vars
    /\ [](/\ Alternates(chat.messages)
          /\ chat.isLoading <=> Len(chat.messages) % 2 = 1)
    /\ (chat.isLoading ~> ~chat.isLoading)

\* C29 happens: the request of a first send failed, and a second send, typed
\* between blanks, was answered
ChatProtocolWitness ==
    /\ Len(chat.messages) = 4
    /\ chat.messages[2].content = <<"Sorry, I encountered an error. Please try again.">>
    /\ chat.messages[3].content = <<"h", " ", "i">>
    /\ chat.messages[4].content = <<"y", "e", "s">>
    /\ ~chat.isLoading
    /\ chat.op = "resolved"

----------------------------------------------------------------------------
(* Properties of the CanvasBoard engine lifecycle (checked under SpecMount) *)

\* C30 as stated: once the cleanup of the effect has called destroy() on an
\* engine, the board makes no further call on that engine, and after a change
\* of canvasId the board works with an engine constructed for the new canvasId.
NoUseOfDestroyedEngine ==
    /\ \A i \in DOMAIN mount.calls : ~mount.calls[i].destroyed
    /\ mount.mounted =>
           /\ mount.engines[mount.engine].canvasId = mount.canvasId
           /\ ~mount.engines[mount.engine].destroyed

====
